---- MODULE Spec2Model ----
(***************************************************************************)
(* State-machine model of the coordination core of demo-python-service:    *)
(*   - PythonCircuitBreaker      (patterns/resilience/circuit_breaker.py)  *)
(*   - TransactionCoordinator    (patterns/transaction/two_phase_commit.py)*)
(*   - SagaOrchestrator          (patterns/messaging/event_streaming.py)   *)
(*   - step-wise SagaOrchestrator (patterns/transaction/saga.py) driven by *)
(*     execute_saga_transaction (app.py)                                   *)
(*   - OutboxService, OutboxRepository (patterns/transaction/outbox.py)    *)
(*   - InboxPattern              (patterns/messaging/inbox_pattern.py)     *)
(*   - ResourceManager and TwoPhaseCommitParticipant called directly, and  *)
(*     execute_two_phase_commit one participant call at a time             *)
(*   - OutboxService.start_processor / stop_processor called from several  *)
(*     threads                    (patterns/transaction/outbox.py)         *)
(*   - TwoPhaseCommit             (patterns/messaging/inbox_pattern.py)    *)
(*   - OutboxPattern and publish_event                                     *)
(*                                (patterns/messaging/event_streaming.py)  *)
(* Each component has its own next-state relation and specification; the   *)
(* variables of the other components stay at their initial values.         *)
(***************************************************************************)
EXTENDS Integers, Sequences, FiniteSets, TLC

(***************************************************************************)
(* Bounds of the model.                                                    *)
(***************************************************************************)
\* largest failure_threshold a breaker is constructed with
MaxThreshold == 2
\* largest recovery_timeout a breaker is constructed with
MaxTimeout == 2
\* last instant of the clock read by time.time()
MaxNow == 4
\* number of invocations of the wrapped operation
MaxCalls == 4
\* number of global transactions the coordinator holds
MaxTx == 1
\* longest participant list given to begin_transaction
MaxParticipants == 2
\* number of coordinator operations called
MaxOps == 4
\* longest step list given to register_saga
MaxSteps == 3
\* number of events saved in the outbox
MaxEvents == 3
\* number of messages handed to handle_message
MaxDeliveries == 4
\* number of start_saga calls made by the threads of the service
MaxStarts == 2
\* seconds the model lets pass after a transaction was created
MaxAge == 31
\* Thread objects start_processor may create in a run
MaxThreads == 3
\* calls made on the TwoPhaseCommit object in a run
MaxProtocolCalls == 2

VARIABLES
    \* ---- PythonCircuitBreaker --------------------------------------------
    failure_threshold,      \* self.failure_threshold
    recovery_timeout,       \* self.recovery_timeout
    stats,                  \* self.stats (CircuitBreakerStats)
    cb_lock,                \* self.lock: 0 when free, else the holding thread
    cb_pc,                  \* per thread: "idle" or "running" (inside func)
    cb_result,              \* per thread: how its last call ended
    now,                    \* the clock, time.time()
    consecutive_failures,   \* history: classified failures of func in a row
    invocations,            \* history: number of times func was invoked
    opened_at,              \* history: instant of the last transition to OPEN
    failures_since_closed,  \* history: classified failures of func since the
                            \* breaker was created or last left HALF_OPEN for
                            \* CLOSED
    \* ---- TransactionCoordinator and its ResourceManagers -----------------
    coordinator,            \* transactions, the managers' prepared_transactions
                            \* and the history of the calls made on them
    tpc_last,               \* the last coordinator operation and its result
    tpc_ops,                \* number of coordinator operations called
    \* ---- SagaOrchestrator (event_streaming) ------------------------------
    saga_definitions,       \* self.saga_definitions: saga type -> step list
    sagas,                  \* self.sagas: saga id -> SagaState
    saga_pc,                \* per saga id: where the thread driving it stands
    saga_hist,              \* per saga id: history of actions, statuses, events
    \* ---- step-wise SagaOrchestrator (transaction/saga.py) ----------------
    tx_sagas,               \* transaction_saga_orchestrator.sagas, with the
                            \* history of each saga's compensation
    tx_pc,                  \* per request: position in execute_saga_transaction
    tx_success,             \* per request: the local variable success
    \* ---- OutboxService, OutboxRepository, EventPublisher -----------------
    outbox_events,          \* repository.events, in the order saved
    outbox_running,         \* self.running
    outbox_pc,              \* position of the processor thread
    outbox_batch,           \* unprocessed_events still to go in this scan
    outbox_hist,            \* history: per record, how each publish ended
    outbox_read,            \* the list a caller's find_unprocessed returned
                            \* in the last step, if that step was a read
    \* ---- InboxPattern -----------------------------------------------------
    inbox_processed,        \* self.processed_messages
    inbox_events,           \* self.inbox_events: message id -> processed
    inbox_pc,               \* per thread: position in handle_message
    inbox_msg,              \* per thread: the message_id it was given
    inbox_ret,              \* per thread: what its last handle_message returned
    inbox_hist,             \* history: per message id, how each process_event
                            \* ended and how many deliveries were answered
                            \* without processing
    \* ---- SagaOrchestrator (event_streaming) called from several threads --
    orch_lock,              \* self.lock: "free", or the thread holding it
    orch_objs,              \* the SagaState objects, in the order created
    orch_sagas,             \* self.sagas: saga id -> position in orch_objs
    orch_th,                \* per thread: position and local variables
    orch_read,              \* the object get_saga_status returned in the last
                            \* step, if that step was a read, and what its
                            \* fields were when it returned
    \* ---- 2PC participants called directly --------------------------------
    part_prepared,          \* per TwoPhaseCommitParticipant:
                            \* self.prepared_transactions
    part_hist,              \* history: per participant and transaction id,
                            \* the number of times execute_commit was invoked
    part_last,              \* the last participant call and how it ended
    part_ops,               \* number of participant calls made
    \* ---- execute_two_phase_commit, one participant call at a time --------
    tpc_exec,               \* the thread in execute_two_phase_commit: its
                            \* position, its local variables, whether the
                            \* manager it is calling will return, and the
                            \* seconds since the transaction's created_at
    \* ---- OutboxService.start_processor / stop_processor ------------------
    proc_running,           \* self.running
    proc_thread,            \* self.processor_thread: 0 for None, else the
                            \* position of the thread in proc_threads
    proc_threads,           \* the Thread objects created, in order: created,
                            \* testing "while self.running", scanning, exited
    proc_callers,           \* per calling thread: position, the thread it
                            \* joins, and how its last call ended
    \* ---- TwoPhaseCommit (inbox_pattern) -----------------------------------
    protocol_transactions,  \* self.transactions: tx id -> status and names
    protocol_last,          \* the last call made on it and how it ended
    protocol_ops,           \* number of calls made on it
    \* ---- OutboxPattern and EventStreamProcessor (event_streaming) --------
    pattern_connected,      \* event_processor.connected
    pattern_queue,          \* self.outbox_events
    pattern_hist            \* history: per saved event, how each send of it
                            \* to the broker ended

cbVars == <<failure_threshold, recovery_timeout, stats, cb_lock, cb_pc,
            cb_result, now, consecutive_failures, invocations, opened_at,
            failures_since_closed>>

tpcVars == <<coordinator, tpc_last, tpc_ops>>

sagaVars == <<saga_definitions, sagas, saga_pc, saga_hist>>

txSagaVars == <<tx_sagas, tx_pc, tx_success>>

outboxVars == <<outbox_events, outbox_running, outbox_pc, outbox_batch,
                outbox_hist, outbox_read>>

inboxVars == <<inbox_processed, inbox_events, inbox_pc, inbox_msg, inbox_ret,
               inbox_hist>>

orchVars == <<orch_lock, orch_objs, orch_sagas, orch_th, orch_read>>

partVars == <<part_prepared, part_hist, part_last, part_ops>>

execVars == <<tpc_exec>>

procVars == <<proc_running, proc_thread, proc_threads, proc_callers>>

protocolVars == <<protocol_transactions, protocol_last, protocol_ops>>

patternVars == <<pattern_connected, pattern_queue, pattern_hist>>

vars == <<cbVars, tpcVars, sagaVars, txSagaVars, outboxVars, inboxVars,
          orchVars, partVars, execVars,
          procVars,
          protocolVars,
          patternVars>>

\* what a step of one component leaves alone: the other components
CBFrame ==
    UNCHANGED <<tpcVars, sagaVars, txSagaVars, outboxVars, inboxVars,
                orchVars, partVars,
                execVars,
                procVars,
                protocolVars,
                patternVars>>
TPCFrame ==
    UNCHANGED <<cbVars, sagaVars, txSagaVars, outboxVars, inboxVars,
                orchVars, partVars,
                execVars,
                procVars,
                protocolVars,
                patternVars>>
SagaFrame ==
    UNCHANGED <<cbVars, tpcVars, txSagaVars, outboxVars, inboxVars,
                orchVars, partVars,
                execVars,
                procVars,
                protocolVars,
                patternVars>>
TxSagaFrame ==
    UNCHANGED <<cbVars, tpcVars, sagaVars, outboxVars, inboxVars,
                orchVars, partVars,
                execVars,
                procVars,
                protocolVars,
                patternVars>>
OutboxFrame ==
    UNCHANGED <<cbVars, tpcVars, sagaVars, txSagaVars, inboxVars,
                orchVars, partVars,
                execVars,
                procVars,
                protocolVars,
                patternVars>>
InboxFrame ==
    UNCHANGED <<cbVars, tpcVars, sagaVars, txSagaVars, outboxVars,
                orchVars, partVars,
                execVars,
                procVars,
                protocolVars,
                patternVars>>
OrchFrame ==
    UNCHANGED <<cbVars, tpcVars, sagaVars, txSagaVars, outboxVars,
                inboxVars, partVars,
                execVars,
                procVars,
                protocolVars,
                patternVars>>
\* direct calls change the coordinator's managers and the participants
PartFrame ==
    UNCHANGED <<cbVars, sagaVars, txSagaVars, outboxVars, inboxVars,
                orchVars, execVars,
                procVars,
                protocolVars,
                patternVars>>
\* a step of execute_two_phase_commit changes the coordinator and the thread
ExecFrame ==
    UNCHANGED <<cbVars, sagaVars, txSagaVars, outboxVars, inboxVars,
                orchVars, partVars,
                procVars,
                protocolVars,
                patternVars>>
\* a step of start_processor, stop_processor or a processor thread
ProcFrame ==
    UNCHANGED <<cbVars, tpcVars, sagaVars, txSagaVars, outboxVars,
                inboxVars, orchVars, partVars, execVars,
                protocolVars,
                patternVars>>
\* a call of TwoPhaseCommit changes it and its participants
ProtocolFrame ==
    UNCHANGED <<cbVars, tpcVars, sagaVars, txSagaVars, outboxVars,
                inboxVars, orchVars, execVars, procVars,
                patternVars>>
\* a step of OutboxPattern or of its event processor
PatternFrame ==
    UNCHANGED <<cbVars, tpcVars, sagaVars, txSagaVars, outboxVars,
                inboxVars, orchVars, partVars, execVars, procVars,
                protocolVars>>

(***************************************************************************)
(* PythonCircuitBreaker                                                    *)
(***************************************************************************)
CBThreads == {1, 2}

\* Optional[float] = None of last_failure_time
None == -1

CircuitBreakerStats ==
    [failure_count |-> 0, success_count |-> 0, total_requests |-> 0,
     state |-> "CLOSED", last_failure_time |-> None,
     failure_rate |-> <<0, 1>>]

\* failure_rate is kept as the fraction <<numerator, denominator>>
UpdateFailureRate(s) ==
    IF s.total_requests > 0
    THEN [s EXCEPT !.failure_rate = <<s.failure_count, s.total_requests>>]
    ELSE s

\* mutant: HALF_OPEN closes without resetting the failure counter
OnSuccess_NoReset(s) ==
    LET s1 == [s EXCEPT !.success_count = @ + 1, !.total_requests = @ + 1]
        s2 == IF s1.state = "HALF_OPEN"
              THEN [s1 EXCEPT !.state = "CLOSED"]
              ELSE s1
    IN  UpdateFailureRate(s2)

\* mutant: a success in HALF_OPEN does not close the breaker
OnSuccess_NoClose(s) ==
    LET s1 == [s EXCEPT !.success_count = @ + 1, !.total_requests = @ + 1]
        s2 == IF s1.state = "HALF_OPEN"
              THEN [s1 EXCEPT !.failure_count = 0]
              ELSE s1
    IN  UpdateFailureRate(s2)

\* mutant: every success resets the failure counter
OnSuccess_ResetsAlways(s) ==
    LET s1 == [s EXCEPT !.success_count = @ + 1, !.total_requests = @ + 1]
        s2 == IF s1.state = "HALF_OPEN"
              THEN [s1 EXCEPT !.state = "CLOSED", !.failure_count = 0]
              ELSE [s1 EXCEPT !.failure_count = 0]
    IN  UpdateFailureRate(s2)

OnSuccess(s) ==
    LET s1 == [s EXCEPT !.success_count = @ + 1, !.total_requests = @ + 1]
        s2 == IF s1.state = "HALF_OPEN"
              THEN [s1 EXCEPT !.state = "CLOSED", !.failure_count = 0]
              ELSE s1
    IN  UpdateFailureRate(s2)

\* mutant: the threshold test is strict
OnFailure_StrictThreshold(s, threshold, t) ==
    LET s1 == [s EXCEPT !.failure_count = @ + 1, !.total_requests = @ + 1,
                        !.last_failure_time = t]
        s2 == IF s1.failure_count > threshold
              THEN [s1 EXCEPT !.state = "OPEN"]
              ELSE s1
    IN  UpdateFailureRate(s2)

\* mutant: a failure in HALF_OPEN does not restart the cool-down clock
OnFailure_KeepClock(s, threshold, t) ==
    LET s1 == [s EXCEPT !.failure_count = @ + 1, !.total_requests = @ + 1,
                        !.last_failure_time =
                            IF s.state = "HALF_OPEN" THEN @ ELSE t]
        s2 == IF s1.failure_count >= threshold
              THEN [s1 EXCEPT !.state = "OPEN"]
              ELSE s1
    IN  UpdateFailureRate(s2)

OnFailure(s, threshold, t) ==
    LET s1 == [s EXCEPT !.failure_count = @ + 1, !.total_requests = @ + 1,
                        !.last_failure_time = t]
        s2 == IF s1.failure_count >= threshold
              THEN [s1 EXCEPT !.state = "OPEN"]
              ELSE s1
    IN  UpdateFailureRate(s2)

\* the cool-down test of the wrapper
CoolDownElapsed(s, timeout, t) == t - s.last_failure_time > timeout

CBInit ==
    /\ failure_threshold \in 1..MaxThreshold
    /\ recovery_timeout \in 0..MaxTimeout
    /\ stats = CircuitBreakerStats
    /\ cb_lock = 0
    /\ cb_pc = [t \in CBThreads |-> "idle"]
    /\ cb_result = [t \in CBThreads |-> "none"]
    /\ now = 0
    /\ consecutive_failures = 0
    /\ invocations = 0
    /\ opened_at = None
    /\ failures_since_closed = 0

\* mutant: a rejected call is counted as a request
CallRejected_Counted(t) ==
    /\ CBFrame
    /\ cb_pc[t] = "idle" /\ cb_lock = 0
    /\ stats.state = "OPEN"
    /\ ~CoolDownElapsed(stats, recovery_timeout, now)
    /\ stats.total_requests < 2 * MaxCalls
    /\ stats' = UpdateFailureRate([stats EXCEPT !.total_requests = @ + 1])
    /\ cb_result' = [cb_result EXCEPT ![t] = "rejected"]
    /\ UNCHANGED <<failure_threshold, recovery_timeout, cb_lock, cb_pc,
                   now, consecutive_failures, invocations, opened_at,
                   failures_since_closed>>

\* wrapper, state OPEN inside the cool-down: raise "Circuit breaker is OPEN"
CallRejected(t) ==
    /\ CBFrame
    /\ cb_pc[t] = "idle" /\ cb_lock = 0
    /\ stats.state = "OPEN"
    /\ ~CoolDownElapsed(stats, recovery_timeout, now)
    /\ cb_result' = [cb_result EXCEPT ![t] = "rejected"]
    /\ UNCHANGED <<failure_threshold, recovery_timeout, stats, cb_lock, cb_pc,
                   now, consecutive_failures, invocations, opened_at,
                   failures_since_closed>>

\* wrapper, admitted: takes the lock, moves OPEN to HALF_OPEN, enters func
CallAdmitted(t) ==
    /\ CBFrame
    /\ cb_pc[t] = "idle" /\ cb_lock = 0
    /\ invocations < MaxCalls
    /\ stats.state = "OPEN" => CoolDownElapsed(stats, recovery_timeout, now)
    /\ stats' = IF stats.state = "OPEN"
                THEN [stats EXCEPT !.state = "HALF_OPEN"] ELSE stats
    /\ cb_lock' = t
    /\ cb_pc' = [cb_pc EXCEPT ![t] = "running"]
    /\ invocations' = invocations + 1
    /\ UNCHANGED <<failure_threshold, recovery_timeout, cb_result, now,
                   consecutive_failures, opened_at,
                   failures_since_closed>>

\* func returned: _on_success, release the lock
CallSucceeds(t) ==
    /\ CBFrame
    /\ cb_pc[t] = "running"
    /\ stats' = OnSuccess(stats)
    /\ cb_lock' = 0
    /\ cb_pc' = [cb_pc EXCEPT ![t] = "idle"]
    /\ cb_result' = [cb_result EXCEPT ![t] = "returned"]
    /\ consecutive_failures' = 0
    /\ failures_since_closed' =
          IF stats.state = "HALF_OPEN" THEN 0 ELSE failures_since_closed
    /\ UNCHANGED <<failure_threshold, recovery_timeout, now, invocations,
                   opened_at>>

\* func raised self.expected_exception: _on_failure, re-raise
CallFailsExpected(t) ==
    /\ CBFrame
    /\ cb_pc[t] = "running"
    /\ stats' = OnFailure(stats, failure_threshold, now)
    /\ cb_lock' = 0
    /\ cb_pc' = [cb_pc EXCEPT ![t] = "idle"]
    /\ cb_result' = [cb_result EXCEPT ![t] = "raised_expected"]
    /\ consecutive_failures' = consecutive_failures + 1
    /\ opened_at' = IF stats'.state = "OPEN" THEN now ELSE opened_at
    /\ failures_since_closed' = failures_since_closed + 1
    /\ UNCHANGED <<failure_threshold, recovery_timeout, now, invocations>>

\* mutant: every exception of func is counted as a failure
CallFailsOther_Counted(t) ==
    /\ CBFrame
    /\ cb_pc[t] = "running"
    /\ stats' = OnFailure(stats, failure_threshold, now)
    /\ cb_lock' = 0
    /\ cb_pc' = [cb_pc EXCEPT ![t] = "idle"]
    /\ cb_result' = [cb_result EXCEPT ![t] = "raised_other"]
    /\ consecutive_failures' = 0
    /\ UNCHANGED <<failure_threshold, recovery_timeout, now, invocations,
                   opened_at, failures_since_closed>>

\* func raised another exception: it propagates past the except clause
CallFailsOther(t) ==
    /\ CBFrame
    /\ cb_pc[t] = "running"
    /\ cb_lock' = 0
    /\ cb_pc' = [cb_pc EXCEPT ![t] = "idle"]
    /\ cb_result' = [cb_result EXCEPT ![t] = "raised_other"]
    /\ consecutive_failures' = 0
    /\ UNCHANGED <<failure_threshold, recovery_timeout, stats, now,
                   invocations, opened_at,
                   failures_since_closed>>

\* time passes
Tick ==
    /\ CBFrame
    /\ now < MaxNow
    /\ now' = now + 1
    /\ UNCHANGED <<failure_threshold, recovery_timeout, stats, cb_lock, cb_pc,
                   cb_result, consecutive_failures, invocations, opened_at,
                   failures_since_closed>>

CBNext ==
    \/ \E t \in CBThreads : CallRejected(t)
    \/ \E t \in CBThreads : CallAdmitted(t)
    \/ \E t \in CBThreads : CallSucceeds(t)
    \/ \E t \in CBThreads : CallFailsExpected(t)
    \/ \E t \in CBThreads : CallFailsOther(t)
    \/ Tick

(***************************************************************************)
(* TransactionCoordinator and ResourceManager                              *)
(***************************************************************************)
\* the managers registered with the global coordinator
ResourceManagers == {"database", "cache", "file-system"}

\* participant ids a caller names; "unregistered" names no manager
ParticipantIds == {"database", "cache", "unregistered"}

\* transaction_data: a mapping (it has copy()), or a value without copy()
TransactionData == {"dict", "not_a_dict"}

RECURSIVE SeqsUpTo(_, _)
SeqsUpTo(S, n) ==
    IF n = 0 THEN {<< >>}
    ELSE LET shorter == SeqsUpTo(S, n - 1)
         IN  shorter \cup {Append(q, x) : q \in shorter, x \in S}

ParticipantLists == SeqsUpTo(ParticipantIds, MaxParticipants)

\* ResourceManager.prepare: False only when data.copy() raises
RMPrepare(w, rm, tx, data) ==
    IF data = "dict"
    THEN [ok |-> TRUE,
          w |-> [w EXCEPT !.prepared_transactions[rm] = @ \cup {tx}]]
    ELSE [ok |-> FALSE, w |-> w]

\* mutant: commit does not look for the prepared entry
RMCommit_Unprepared(w, rm, tx) ==
    [ok |-> TRUE,
     w |-> [w EXCEPT !.prepared_transactions[rm] = @ \ {tx},
                     !.committed[rm] = @ \cup {tx}]]

\* ResourceManager.commit: pops the prepared entry, False when there is none
RMCommit(w, rm, tx) ==
    IF tx \in w.prepared_transactions[rm]
    THEN [ok |-> TRUE,
          w |-> [w EXCEPT !.prepared_transactions[rm] = @ \ {tx},
                          !.committed[rm] = @ \cup {tx}]]
    ELSE [ok |-> FALSE, w |-> w]

\* mutant: abort leaves the prepared entry where it is
RMAbort_KeepsEntry(w, rm, tx) == w

\* ResourceManager.abort: drops the prepared entry if any, returns True
RMAbort(w, rm, tx) ==
    [w EXCEPT !.prepared_transactions[rm] = @ \ {tx}]

\* TransactionParticipant(participant_id, resource_manager = participant_id)
TransactionParticipant(id) ==
    [participant_id |-> id, resource_manager |-> id, status |-> "PREPARING",
     prepare_data |-> "None"]

\* begin_transaction: a fresh id, status PREPARING, one participant per id
BeginTransaction(w, participants) ==
    LET tx == Cardinality(DOMAIN w.transactions) + 1
        n == Len(participants)
        t == [status |-> "PREPARING",
              participants |->
                  [i \in 1..n |-> TransactionParticipant(participants[i])]]
        h == [prepare |-> [i \in 1..n |-> "none"],
              commit |-> [i \in 1..n |-> "none"],
              abort |-> [i \in 1..n |-> "none"],
              premature |-> FALSE]
    IN  [tx |-> tx,
         w |-> [w EXCEPT !.transactions = tx :> t @@ @,
                         !.calls = tx :> h @@ @]]

\* the loop of prepare_phase from participant i on
RECURSIVE PrepareLoop(_, _, _, _, _)
PrepareLoop(w, tx, data, i, all_prepared) ==
    IF i > Len(w.transactions[tx].participants)
    THEN [all |-> all_prepared, w |-> w]
    ELSE LET rm == w.transactions[tx].participants[i].resource_manager
         IN  IF rm \in ResourceManagers
             THEN LET r == RMPrepare(w, rm, tx, data)
                      w1 == [r.w EXCEPT
                               !.transactions[tx].participants[i].status =
                                   IF r.ok THEN "PREPARED" ELSE "FAILED",
                               !.transactions[tx].participants[i].prepare_data =
                                   IF r.ok THEN data ELSE @,
                               !.calls[tx].prepare[i] =
                                   IF r.ok THEN "ok" ELSE "failed"]
                  IN  PrepareLoop(w1, tx, data, i + 1, all_prepared /\ r.ok)
             ELSE PrepareLoop(
                      [w EXCEPT !.transactions[tx].participants[i].status =
                                    "FAILED"],
                      tx, data, i + 1, FALSE)

PreparePhase(w, tx, data) ==
    IF tx \notin DOMAIN w.transactions
    THEN [ret |-> FALSE, w |-> w]
    ELSE LET r == PrepareLoop(w, tx, data, 1, TRUE)
         IN  [ret |-> r.all,
              w |-> [r.w EXCEPT !.transactions[tx].status =
                                    IF r.all THEN "PREPARED" ELSE "ABORTED"]]

\* history: a commit is invoked now; was Phase 1 complete and successful?
NoteCommit(w, tx, i, ok) ==
    [w EXCEPT !.calls[tx].commit[i] = IF ok THEN "ok" ELSE "failed",
              !.calls[tx].premature =
                  @ \/ \E j \in DOMAIN w.calls[tx].prepare :
                           w.calls[tx].prepare[j] # "ok"]

\* the loop of commit_phase from participant i on
RECURSIVE CommitLoop(_, _, _, _)
CommitLoop(w, tx, i, all_committed) ==
    IF i > Len(w.transactions[tx].participants)
    THEN [all |-> all_committed, w |-> w]
    ELSE LET rm == w.transactions[tx].participants[i].resource_manager
         IN  IF rm \in ResourceManagers
             THEN LET r == RMCommit(w, rm, tx)
                      w1 == [NoteCommit(r.w, tx, i, r.ok) EXCEPT
                               !.transactions[tx].participants[i].status =
                                   IF r.ok THEN "COMMITTED" ELSE "FAILED"]
                  IN  CommitLoop(w1, tx, i + 1, all_committed /\ r.ok)
             ELSE CommitLoop(w, tx, i + 1, all_committed)

\* mutant: commit_phase does not test that the transaction is PREPARED
CommitPhase_NoStatusTest(w, tx) ==
    IF tx \notin DOMAIN w.transactions
    THEN [ret |-> FALSE, w |-> w]
    ELSE LET r == CommitLoop(w, tx, 1, TRUE)
         IN  [ret |-> r.all,
              w |-> [r.w EXCEPT !.transactions[tx].status =
                                    IF r.all THEN "COMMITTED" ELSE "ABORTED"]]

\* mutant: commit_phase does not mark the transaction COMMITTED
CommitPhase_KeepsPrepared(w, tx) ==
    IF tx \notin DOMAIN w.transactions
       \/ w.transactions[tx].status # "PREPARED"
    THEN [ret |-> FALSE, w |-> w]
    ELSE LET r == CommitLoop(w, tx, 1, TRUE)
         IN  [ret |-> r.all,
              w |-> [r.w EXCEPT !.transactions[tx].status =
                                    IF r.all THEN @ ELSE "ABORTED"]]

CommitPhase(w, tx) ==
    IF tx \notin DOMAIN w.transactions
       \/ w.transactions[tx].status # "PREPARED"
    THEN [ret |-> FALSE, w |-> w]
    ELSE LET r == CommitLoop(w, tx, 1, TRUE)
         IN  [ret |-> r.all,
              w |-> [r.w EXCEPT !.transactions[tx].status =
                                    IF r.all THEN "COMMITTED" ELSE "ABORTED"]]

\* the loop of abort_transaction from participant i on
RECURSIVE AbortLoop(_, _, _)
AbortLoop(w, tx, i) ==
    IF i > Len(w.transactions[tx].participants)
    THEN w
    ELSE LET rm == w.transactions[tx].participants[i].resource_manager
         IN  IF rm \in ResourceManagers
             THEN AbortLoop(
                      [RMAbort(w, rm, tx) EXCEPT
                          !.transactions[tx].participants[i].status = "ABORTED",
                          !.calls[tx].abort[i] = "ok"],
                      tx, i + 1)
             ELSE AbortLoop(w, tx, i + 1)

AbortTransaction(w, tx) ==
    IF tx \notin DOMAIN w.transactions
    THEN w
    ELSE [AbortLoop(w, tx, 1) EXCEPT !.transactions[tx].status = "ABORTED"]

\* mutant: a failed Phase 1 returns False without aborting
ExecuteTwoPhaseCommit_NoAbortAfterPrepare(w, participants, data) ==
    LET b == BeginTransaction(w, participants)
        p == PreparePhase(b.w, b.tx, data)
    IN  IF ~p.ret
        THEN [ret |-> FALSE, tx |-> b.tx, w |-> p.w]
        ELSE LET c == CommitPhase(p.w, b.tx)
             IN  IF c.ret
                 THEN [ret |-> TRUE, tx |-> b.tx, w |-> c.w]
                 ELSE [ret |-> FALSE, tx |-> b.tx,
                       w |-> AbortTransaction(c.w, b.tx)]

\* mutant: a failed Phase 2 returns False without aborting
ExecuteTwoPhaseCommit_NoAbortAfterCommit(w, participants, data) ==
    LET b == BeginTransaction(w, participants)
        p == PreparePhase(b.w, b.tx, data)
    IN  IF ~p.ret
        THEN [ret |-> FALSE, tx |-> b.tx, w |-> AbortTransaction(p.w, b.tx)]
        ELSE LET c == CommitPhase(p.w, b.tx)
             IN  [ret |-> c.ret, tx |-> b.tx, w |-> c.w]

ExecuteTwoPhaseCommit(w, participants, data) ==
    LET b == BeginTransaction(w, participants)
        p == PreparePhase(b.w, b.tx, data)
    IN  IF ~p.ret
        THEN [ret |-> FALSE, tx |-> b.tx, w |-> AbortTransaction(p.w, b.tx)]
        ELSE LET c == CommitPhase(p.w, b.tx)
             IN  IF c.ret
                 THEN [ret |-> TRUE, tx |-> b.tx, w |-> c.w]
                 ELSE [ret |-> FALSE, tx |-> b.tx,
                       w |-> AbortTransaction(c.w, b.tx)]

TPCInit ==
    /\ coordinator =
          [transactions |-> << >>,
           prepared_transactions |-> [rm \in ResourceManagers |-> {}],
           committed |-> [rm \in ResourceManagers |-> {}],
           calls |-> << >>]
    /\ tpc_last = [op |-> "none", tx |-> 0, ret |-> FALSE]
    /\ tpc_ops = 0

TxIds == DOMAIN coordinator.transactions

CanCall == tpc_ops < MaxOps

CallBeginTransaction ==
    /\ TPCFrame
    /\ CanCall
    /\ Cardinality(TxIds) < MaxTx
    /\ \E participants \in ParticipantLists :
         LET b == BeginTransaction(coordinator, participants)
         IN  /\ coordinator' = b.w
             /\ tpc_last' = [op |-> "begin_transaction", tx |-> b.tx,
                             ret |-> TRUE]
    /\ tpc_ops' = tpc_ops + 1

CallPreparePhase ==
    /\ TPCFrame
    /\ CanCall
    /\ \E tx \in TxIds, data \in TransactionData :
         LET r == PreparePhase(coordinator, tx, data)
         IN  /\ coordinator' = r.w
             /\ tpc_last' = [op |-> "prepare_phase", tx |-> tx, ret |-> r.ret]
    /\ tpc_ops' = tpc_ops + 1

CallCommitPhase ==
    /\ TPCFrame
    /\ CanCall
    /\ \E tx \in TxIds :
         LET r == CommitPhase(coordinator, tx)
         IN  /\ coordinator' = r.w
             /\ tpc_last' = [op |-> "commit_phase", tx |-> tx, ret |-> r.ret]
    /\ tpc_ops' = tpc_ops + 1

CallAbortTransaction ==
    /\ TPCFrame
    /\ CanCall
    /\ \E tx \in TxIds :
         /\ coordinator' = AbortTransaction(coordinator, tx)
         /\ tpc_last' = [op |-> "abort_transaction", tx |-> tx, ret |-> TRUE]
    /\ tpc_ops' = tpc_ops + 1

CallExecuteTwoPhaseCommit ==
    /\ TPCFrame
    /\ CanCall
    /\ Cardinality(TxIds) < MaxTx
    /\ \E participants \in ParticipantLists, data \in TransactionData :
         LET r == ExecuteTwoPhaseCommit(coordinator, participants, data)
         IN  /\ coordinator' = r.w
             /\ tpc_last' = [op |-> "execute_two_phase_commit", tx |-> r.tx,
                             ret |-> r.ret]
    /\ tpc_ops' = tpc_ops + 1

TPCNext ==
    \/ CallBeginTransaction
    \/ CallPreparePhase
    \/ CallCommitPhase
    \/ CallAbortTransaction
    \/ CallExecuteTwoPhaseCommit

(***************************************************************************)
(* execute_two_phase_commit of TransactionCoordinator, one participant     *)
(* call at a time                                                          *)
(*                                                                         *)
(* The coordinator calls resource_manager.prepare and .commit in its own   *)
(* thread and goes on when the call returns. register_resource_manager     *)
(* takes any manager, so a call may also never return; time passes while   *)
(* the coordinator waits.                                                  *)
(***************************************************************************)
\* GlobalTransaction.timeout_seconds
TimeoutSeconds == 30

ExecIdle ==
    [pc |-> "idle", tx |-> 0, i |-> 0, all |-> TRUE, data |-> "dict",
     returns |-> TRUE, age |-> 0]

ExecInit == tpc_exec = ExecIdle

ExecParticipants == coordinator.transactions[tpc_exec.tx].participants

ExecManager == ExecParticipants[tpc_exec.i].resource_manager

\* begin_transaction
ExecBegin ==
    /\ ExecFrame
    /\ tpc_exec.pc = "idle"
    /\ Cardinality(TxIds) < MaxTx
    /\ \E participants \in ParticipantLists, data \in TransactionData :
         LET b == BeginTransaction(coordinator, participants)
         IN  /\ coordinator' = b.w
             /\ tpc_exec' = [ExecIdle EXCEPT !.pc = "prepare_loop",
                                             !.tx = b.tx, !.i = 1,
                                             !.data = data]
    /\ UNCHANGED <<tpc_last, tpc_ops>>

\* prepare_phase, a participant with a registered manager: status PREPARING,
\* then the call of resource_manager.prepare
ExecPrepareCall ==
    /\ ExecFrame
    /\ tpc_exec.pc = "prepare_loop"
    /\ tpc_exec.i <= Len(ExecParticipants)
    /\ ExecManager \in ResourceManagers
    /\ coordinator' =
          [coordinator EXCEPT
              !.transactions[tpc_exec.tx].participants[tpc_exec.i].status =
                  "PREPARING"]
    /\ \E returns \in BOOLEAN :
         tpc_exec' = [tpc_exec EXCEPT !.pc = "in_prepare",
                                      !.returns = returns]
    /\ UNCHANGED <<tpc_last, tpc_ops>>

\* prepare_phase, a participant without a registered manager
ExecPrepareUnregistered ==
    /\ ExecFrame
    /\ tpc_exec.pc = "prepare_loop"
    /\ tpc_exec.i <= Len(ExecParticipants)
    /\ ExecManager \notin ResourceManagers
    /\ coordinator' =
          [coordinator EXCEPT
              !.transactions[tpc_exec.tx].participants[tpc_exec.i].status =
                  "FAILED"]
    /\ tpc_exec' = [tpc_exec EXCEPT !.i = @ + 1, !.all = FALSE]
    /\ UNCHANGED <<tpc_last, tpc_ops>>

\* resource_manager.prepare returns
ExecPrepareReturns ==
    /\ ExecFrame
    /\ tpc_exec.pc = "in_prepare"
    /\ tpc_exec.returns
    /\ LET tx == tpc_exec.tx
           i == tpc_exec.i
           r == RMPrepare(coordinator, ExecManager, tx, tpc_exec.data)
       IN  /\ coordinator' =
                 [r.w EXCEPT
                     !.transactions[tx].participants[i].status =
                         IF r.ok THEN "PREPARED" ELSE "FAILED",
                     !.transactions[tx].participants[i].prepare_data =
                         IF r.ok THEN tpc_exec.data ELSE @,
                     !.calls[tx].prepare[i] = IF r.ok THEN "ok" ELSE "failed"]
           /\ tpc_exec' = [tpc_exec EXCEPT !.pc = "prepare_loop",
                                           !.i = @ + 1,
                                           !.all = @ /\ r.ok]
    /\ UNCHANGED <<tpc_last, tpc_ops>>

\* end of prepare_phase; execute_two_phase_commit goes on to commit_phase
\* or to abort_transaction
ExecPrepareEnds ==
    /\ ExecFrame
    /\ tpc_exec.pc = "prepare_loop"
    /\ tpc_exec.i > Len(ExecParticipants)
    /\ coordinator' =
          [coordinator EXCEPT !.transactions[tpc_exec.tx].status =
                                  IF tpc_exec.all THEN "PREPARED"
                                  ELSE "ABORTED"]
    /\ tpc_exec' = IF tpc_exec.all
                   THEN [tpc_exec EXCEPT !.pc = "commit_loop", !.i = 1]
                   ELSE [tpc_exec EXCEPT !.pc = "abort"]
    /\ UNCHANGED <<tpc_last, tpc_ops>>

\* commit_phase: the call of resource_manager.commit (after a successful
\* Phase 1 every participant has a registered manager)
ExecCommitCall ==
    /\ ExecFrame
    /\ tpc_exec.pc = "commit_loop"
    /\ tpc_exec.i <= Len(ExecParticipants)
    /\ ExecManager \in ResourceManagers
    /\ \E returns \in BOOLEAN :
         tpc_exec' = [tpc_exec EXCEPT !.pc = "in_commit",
                                      !.returns = returns]
    /\ UNCHANGED tpcVars

\* resource_manager.commit returns
ExecCommitReturns ==
    /\ ExecFrame
    /\ tpc_exec.pc = "in_commit"
    /\ tpc_exec.returns
    /\ LET tx == tpc_exec.tx
           i == tpc_exec.i
           r == RMCommit(coordinator, ExecManager, tx)
       IN  /\ coordinator' =
                 [NoteCommit(r.w, tx, i, r.ok) EXCEPT
                     !.transactions[tx].participants[i].status =
                         IF r.ok THEN "COMMITTED" ELSE "FAILED"]
           /\ tpc_exec' = [tpc_exec EXCEPT !.pc = "commit_loop",
                                           !.i = @ + 1,
                                           !.all = @ /\ r.ok]
    /\ UNCHANGED <<tpc_last, tpc_ops>>

\* end of commit_phase; execute_two_phase_commit returns True or goes on
\* to abort_transaction
ExecCommitEnds ==
    /\ ExecFrame
    /\ tpc_exec.pc = "commit_loop"
    /\ tpc_exec.i > Len(ExecParticipants)
    /\ coordinator' =
          [coordinator EXCEPT !.transactions[tpc_exec.tx].status =
                                  IF tpc_exec.all THEN "COMMITTED"
                                  ELSE "ABORTED"]
    /\ tpc_exec' = [tpc_exec EXCEPT
                       !.pc = IF tpc_exec.all THEN "returned" ELSE "abort"]
    /\ tpc_last' = IF tpc_exec.all
                   THEN [op |-> "execute_two_phase_commit",
                         tx |-> tpc_exec.tx, ret |-> TRUE]
                   ELSE tpc_last
    /\ UNCHANGED tpc_ops

\* abort_transaction, and execute_two_phase_commit returns False
ExecAbort ==
    /\ ExecFrame
    /\ tpc_exec.pc = "abort"
    /\ coordinator' = AbortTransaction(coordinator, tpc_exec.tx)
    /\ tpc_exec' = [tpc_exec EXCEPT !.pc = "returned"]
    /\ tpc_last' = [op |-> "execute_two_phase_commit", tx |-> tpc_exec.tx,
                    ret |-> FALSE]
    /\ UNCHANGED tpc_ops

\* the coordinator is inside a participant call at this instant
ExecWaiting == tpc_exec.pc \in {"in_prepare", "in_commit"}

\* a second passes while the coordinator waits for a participant
ExecWait ==
    /\ ExecFrame
    /\ ExecWaiting
    /\ tpc_exec.age < MaxAge
    /\ tpc_exec' = [tpc_exec EXCEPT !.age = @ + 1]
    /\ UNCHANGED tpcVars

\* the id of a transaction another thread runs at the same time (ids are
\* fresh uuids: it differs from every id this thread is given), and the
\* managers that transaction names
ConcurrentTx == 0
ConcurrentManagers == {"database"}

\* a manager call of the concurrent transaction, between two steps of this
\* thread: prepare, commit or abort under its own id
ExecConcurrentCall ==
    /\ ExecFrame
    /\ \E rm \in ConcurrentManagers, op \in {"prepare", "commit", "abort"} :
         coordinator' =
             CASE op = "prepare" -> RMPrepare(coordinator, rm, ConcurrentTx,
                                              "dict").w
               [] op = "commit" -> RMCommit(coordinator, rm, ConcurrentTx).w
               [] op = "abort" -> RMAbort(coordinator, rm, ConcurrentTx)
    /\ UNCHANGED <<tpc_last, tpc_ops, tpc_exec>>

ExecNext ==
    \/ ExecConcurrentCall
    \/ ExecBegin
    \/ ExecPrepareCall
    \/ ExecPrepareUnregistered
    \/ ExecPrepareReturns
    \/ ExecPrepareEnds
    \/ ExecCommitCall
    \/ ExecCommitReturns
    \/ ExecCommitEnds
    \/ ExecAbort
    \/ ExecWait

(***************************************************************************)
(* The participants of the two protocols, called directly:                 *)
(* ResourceManager (patterns/transaction/two_phase_commit.py) and          *)
(* TwoPhaseCommitParticipant (patterns/messaging/inbox_pattern.py)         *)
(***************************************************************************)
\* the transaction ids a caller passes
PartTxIds == {1, 2}

\* the TwoPhaseCommitParticipant objects
Participants == {"orders", "payments"}

\* how a hook of a participant (validate_operation, execute_commit,
\* execute_abort; a subclass overrides them) ends
HookOutcomes == {"returns", "raises"}

\* TwoPhaseCommitParticipant.prepare
ParticipantPrepare(prepared, tx_id, validate) ==
    IF validate = "raises"
    THEN [ret |-> "False", prepared |-> prepared]
    ELSE [ret |-> "True", prepared |-> prepared \cup {tx_id}]

\* TwoPhaseCommitParticipant.commit; executed: execute_commit was invoked
ParticipantCommit(prepared, tx_id, execute_commit) ==
    IF tx_id \in prepared
    THEN IF execute_commit = "returns"
         THEN [ret |-> "None", executed |-> TRUE,
               prepared |-> prepared \ {tx_id}]
         ELSE [ret |-> "raised", executed |-> TRUE, prepared |-> prepared]
    ELSE [ret |-> "not_prepared", executed |-> FALSE, prepared |-> prepared]

\* TwoPhaseCommitParticipant.abort
ParticipantAbort(prepared, tx_id, execute_abort) ==
    [ret |-> IF execute_abort = "returns" THEN "None" ELSE "raised",
     prepared |-> prepared \ {tx_id}]

NoCall == [kind |-> "none", op |-> "none", who |-> "none", tx |-> 0,
           ret |-> "none"]

PartInit ==
    /\ part_prepared = [p \in Participants |-> {}]
    /\ part_hist = [p \in Participants |-> [tx \in PartTxIds |-> 0]]
    /\ part_last = NoCall
    /\ part_ops = 0

CanCallPart == part_ops < MaxOps

CallParticipantPrepare ==
    /\ PartFrame
    /\ CanCallPart
    /\ \E p \in Participants, tx \in PartTxIds, validate \in HookOutcomes :
         LET r == ParticipantPrepare(part_prepared[p], tx, validate)
         IN  /\ part_prepared' = [part_prepared EXCEPT ![p] = r.prepared]
             /\ part_last' = [kind |-> "TwoPhaseCommitParticipant",
                              op |-> "prepare", who |-> p, tx |-> tx,
                              ret |-> r.ret]
    /\ part_ops' = part_ops + 1
    /\ UNCHANGED <<tpcVars, part_hist>>

CallParticipantCommit ==
    /\ PartFrame
    /\ CanCallPart
    /\ \E p \in Participants, tx \in PartTxIds, execute_commit \in HookOutcomes :
         LET r == ParticipantCommit(part_prepared[p], tx, execute_commit)
         IN  /\ part_prepared' = [part_prepared EXCEPT ![p] = r.prepared]
             /\ part_hist' = [part_hist EXCEPT ![p][tx] =
                                 IF r.executed THEN @ + 1 ELSE @]
             /\ part_last' = [kind |-> "TwoPhaseCommitParticipant",
                              op |-> "commit", who |-> p, tx |-> tx,
                              ret |-> r.ret]
    /\ part_ops' = part_ops + 1
    /\ UNCHANGED tpcVars

CallParticipantAbort ==
    /\ PartFrame
    /\ CanCallPart
    /\ \E p \in Participants, tx \in PartTxIds, execute_abort \in HookOutcomes :
         LET r == ParticipantAbort(part_prepared[p], tx, execute_abort)
         IN  /\ part_prepared' = [part_prepared EXCEPT ![p] = r.prepared]
             /\ part_last' = [kind |-> "TwoPhaseCommitParticipant",
                              op |-> "abort", who |-> p, tx |-> tx,
                              ret |-> r.ret]
    /\ part_ops' = part_ops + 1
    /\ UNCHANGED <<tpcVars, part_hist>>

CallManagerPrepare ==
    /\ PartFrame
    /\ CanCallPart
    /\ \E rm \in ResourceManagers, tx \in PartTxIds, data \in TransactionData :
         LET r == RMPrepare(coordinator, rm, tx, data)
         IN  /\ coordinator' = r.w
             /\ part_last' = [kind |-> "ResourceManager", op |-> "prepare",
                              who |-> rm, tx |-> tx,
                              ret |-> IF r.ok THEN "True" ELSE "False"]
    /\ part_ops' = part_ops + 1
    /\ UNCHANGED <<tpc_last, tpc_ops, part_prepared, part_hist>>

CallManagerCommit ==
    /\ PartFrame
    /\ CanCallPart
    /\ \E rm \in ResourceManagers, tx \in PartTxIds :
         LET r == RMCommit(coordinator, rm, tx)
         IN  /\ coordinator' = r.w
             /\ part_last' = [kind |-> "ResourceManager", op |-> "commit",
                              who |-> rm, tx |-> tx,
                              ret |-> IF r.ok THEN "True" ELSE "False"]
    /\ part_ops' = part_ops + 1
    /\ UNCHANGED <<tpc_last, tpc_ops, part_prepared, part_hist>>

CallManagerAbort ==
    /\ PartFrame
    /\ CanCallPart
    /\ \E rm \in ResourceManagers, tx \in PartTxIds :
         /\ coordinator' = RMAbort(coordinator, rm, tx)
         /\ part_last' = [kind |-> "ResourceManager", op |-> "abort",
                          who |-> rm, tx |-> tx, ret |-> "True"]
    /\ part_ops' = part_ops + 1
    /\ UNCHANGED <<tpc_last, tpc_ops, part_prepared, part_hist>>

PartNext ==
    \/ CallParticipantPrepare
    \/ CallParticipantCommit
    \/ CallParticipantAbort
    \/ CallManagerPrepare
    \/ CallManagerCommit
    \/ CallManagerAbort

(***************************************************************************)
(* SagaOrchestrator of patterns/messaging/event_streaming.py               *)
(*                                                                         *)
(* start_saga runs the whole saga in the calling thread: a completed step  *)
(* publishes SAGA_STEP_COMPLETED, EventStreamProcessor._publish_local      *)
(* calls the subscribed _handle_step_completed at once, and that calls     *)
(* _execute_next_step again, nested in the frame of the step before. The   *)
(* outer frames do nothing after publish_event returns, so the position of *)
(* the thread is the position of the innermost frame (saga_pc). The steps  *)
(* of the model are the pieces of that run between two lock boundaries.    *)
(***************************************************************************)
SagaTypes == {"ProcessingSaga"}
SagaIds == {"saga-1"}
StepNames == {"A", "B", "C"}

\* SagaStep(name, execute, compensate): compensate is optional
SagaStep == [name : StepNames, has_compensate : BOOLEAN]

StepLists == SeqsUpTo(SagaStep, MaxSteps)

\* [s.name for s in steps]
RECURSIVE StepNamesOf(_)
StepNamesOf(steps) ==
    IF steps = << >> THEN << >>
    ELSE <<Head(steps).name>> \o StepNamesOf(Tail(steps))

\* SagaState as start_saga builds it
SagaState(saga_type) ==
    [saga_type |-> saga_type, status |-> "STARTED", current_step |-> 0,
     context |-> {}, completed_steps |-> << >>, error |-> "None"]

NoHistory ==
    [executed |-> << >>, compensated |-> << >>, statuses |-> << >>,
     events |-> << >>, sweeps |-> 0]

\* saga.status = st, with the history of the statuses assigned
SetStatus(w, id, st) ==
    [w EXCEPT !.sagas[id].status = st,
              !.hist[id].statuses = Append(@, st)]

\* _publish_saga_event: the event reaches the local handlers at once
PublishSagaEvent(w, id, event_type) ==
    [w EXCEPT !.hist[id].events = Append(@, event_type)]

\* next((s for s in steps if s.name == step_name), None): 0 stands for None
RECURSIVE FirstNamed(_, _, _)
FirstNamed(steps, step_name, i) ==
    IF i > Len(steps) THEN 0
    ELSE IF steps[i].name = step_name THEN i
    ELSE FirstNamed(steps, step_name, i + 1)

\* mutant: the sweep stops at the first compensating action that raises
RECURSIVE CompensateLoop_StopsAtRaise(_, _, _, _, _)
CompensateLoop_StopsAtRaise(w, id, steps, k, raising) ==
    IF k = 0 THEN w
    ELSE LET step_name == w.sagas[id].completed_steps[k]
             i == FirstNamed(steps, step_name, 1)
         IN  IF i # 0 /\ steps[i].has_compensate
             THEN LET w1 == [w EXCEPT !.hist[id].compensated =
                                Append(@, [name |-> step_name,
                                           raised |-> step_name \in raising])]
                  IN  IF step_name \in raising THEN w1
                      ELSE CompensateLoop_StopsAtRaise(w1, id, steps, k - 1,
                                                       raising)
             ELSE CompensateLoop_StopsAtRaise(w, id, steps, k - 1, raising)

\* the sweep of _compensate_saga over reversed(saga.completed_steps), from
\* position k down; the compensating actions named in raising raise, which
\* is logged and changes nothing
RECURSIVE CompensateLoop(_, _, _, _, _)
CompensateLoop(w, id, steps, k, raising) ==
    IF k = 0 THEN w
    ELSE LET step_name == w.sagas[id].completed_steps[k]
             i == FirstNamed(steps, step_name, 1)
         IN  IF i # 0 /\ steps[i].has_compensate
             THEN CompensateLoop(
                      [w EXCEPT !.hist[id].compensated =
                          Append(@, [name |-> step_name,
                                     raised |-> step_name \in raising])],
                      id, steps, k - 1, raising)
             ELSE CompensateLoop(w, id, steps, k - 1, raising)

\* _compensate_saga, all of it under self.lock
CompensateSaga(w, id, raising) ==
    IF id \notin DOMAIN w.sagas THEN w
    ELSE LET steps == IF w.sagas[id].saga_type \in DOMAIN w.defs
                      THEN w.defs[w.sagas[id].saga_type] ELSE << >>
             w1 == SetStatus(w, id, "COMPENSATING")
             w2 == CompensateLoop(w1, id, steps,
                                  Len(w1.sagas[id].completed_steps), raising)
             w3 == [SetStatus(w2, id, "COMPENSATED") EXCEPT
                       !.hist[id].sweeps = @ + 1]
         IN  PublishSagaEvent(w3, id, "SAGA_COMPENSATED")

\* mutant: the saga counts as finished one step early
SagaFinished_OneEarly(saga, steps) == saga.current_step >= Len(steps) - 1

\* saga.current_step >= len(steps)
SagaFinished(saga, steps) == saga.current_step >= Len(steps)

\* the state the operators above work on
SagaWorld == [defs |-> saga_definitions, sagas |-> sagas, hist |-> saga_hist]

SagaInit ==
    /\ saga_definitions = << >>
    /\ sagas = << >>
    /\ saga_pc = [id \in SagaIds |-> "none"]
    /\ saga_hist = [id \in SagaIds |-> NoHistory]

\* register_saga, called while the service starts (app.py registers its
\* sagas at import, before any request can start one)
RegisterSaga ==
    /\ SagaFrame
    /\ DOMAIN sagas = {}
    /\ \E saga_type \in SagaTypes, steps \in StepLists :
         saga_definitions' = saga_type :> steps @@ saga_definitions
    /\ UNCHANGED <<sagas, saga_pc, saga_hist>>

\* the saga types a caller of start_saga names
RequestedSagaTypes == SagaTypes \cup {"NoSuchSaga"}

\* mutant: the instance is stored before the type is looked up
StartSagaCall_StoresFirst(w, id, saga_type) ==
    LET w1 == [w EXCEPT !.sagas = id :> SagaState(saga_type) @@ @,
                        !.hist[id].statuses = <<"STARTED">>]
    IN  [raised |-> saga_type \notin DOMAIN w.defs, w |-> w1]

\* start_saga up to its call of _execute_next_step: ValueError for a type
\* that is not registered, else the new SagaState is stored
StartSagaCall(w, id, saga_type) ==
    IF saga_type \notin DOMAIN w.defs
    THEN [raised |-> TRUE, w |-> w]
    ELSE [raised |-> FALSE,
          w |-> [w EXCEPT !.sagas = id :> SagaState(saga_type) @@ @,
                          !.hist[id].statuses = <<"STARTED">>]]

\* start_saga up to its call of _execute_next_step, or to its ValueError
StartSaga(id) ==
    /\ SagaFrame
    /\ saga_pc[id] \in {"none", "unknown_type"}
    /\ \E saga_type \in RequestedSagaTypes :
         LET r == StartSagaCall(SagaWorld, id, saga_type)
         IN  /\ sagas' = r.w.sagas
             /\ saga_hist' = r.w.hist
             /\ saga_pc' = [saga_pc EXCEPT
                               ![id] = IF r.raised THEN "unknown_type"
                                       ELSE "next"]
    /\ UNCHANGED saga_definitions

StepsOf(id) ==
    IF sagas[id].saga_type \in DOMAIN saga_definitions
    THEN saga_definitions[sagas[id].saga_type] ELSE << >>

\* _execute_next_step, no step left: COMPLETED, SAGA_COMPLETED is published
ExecuteNextStepCompletes(id) ==
    /\ SagaFrame
    /\ saga_pc[id] = "next"
    /\ SagaFinished(sagas[id], StepsOf(id))
    /\ LET w == PublishSagaEvent(SetStatus(SagaWorld, id, "COMPLETED"), id,
                                 "SAGA_COMPLETED")
       IN  sagas' = w.sagas /\ saga_hist' = w.hist
    /\ saga_pc' = [saga_pc EXCEPT ![id] = "done"]
    /\ UNCHANGED saga_definitions

\* _execute_next_step, a step is left: IN_PROGRESS, the lock is released
ExecuteNextStepBegins(id) ==
    /\ SagaFrame
    /\ saga_pc[id] = "next"
    /\ ~SagaFinished(sagas[id], StepsOf(id))
    /\ LET w == SetStatus(SagaWorld, id, "IN_PROGRESS")
       IN  sagas' = w.sagas /\ saga_hist' = w.hist
    /\ saga_pc' = [saga_pc EXCEPT ![id] = "execute"]
    /\ UNCHANGED saga_definitions

\* step.execute returned: merge its result, record the step, publish
\* SAGA_STEP_COMPLETED, whose handler calls _execute_next_step
StepSucceeds(id) ==
    /\ SagaFrame
    /\ saga_pc[id] = "execute"
    /\ LET step == StepsOf(id)[sagas[id].current_step + 1]
           w1 == [SagaWorld EXCEPT
                    !.sagas[id].context = @ \cup {step.name},
                    !.sagas[id].completed_steps = Append(@, step.name),
                    !.sagas[id].current_step = @ + 1,
                    !.hist[id].executed =
                        Append(@, [name |-> step.name, raised |-> FALSE])]
           w == PublishSagaEvent(w1, id, "SAGA_STEP_COMPLETED")
       IN  sagas' = w.sagas /\ saga_hist' = w.hist
    /\ saga_pc' = [saga_pc EXCEPT ![id] = "next"]
    /\ UNCHANGED saga_definitions

\* mutant: a step that raised is tried again
StepFails_Retries(id) ==
    /\ SagaFrame
    /\ saga_pc[id] = "execute"
    /\ Len(saga_hist[id].executed) < MaxSteps + 1
    /\ LET step == StepsOf(id)[sagas[id].current_step + 1]
       IN  saga_hist' = [saga_hist EXCEPT ![id].executed =
                            Append(@, [name |-> step.name, raised |-> TRUE])]
    /\ saga_pc' = [saga_pc EXCEPT ![id] = "next"]
    /\ UNCHANGED <<saga_definitions, sagas>>

\* step.execute raised: FAILED, publish SAGA_STEP_FAILED, whose handler
\* _handle_step_failed is about to call _compensate_saga
StepFails(id) ==
    /\ SagaFrame
    /\ saga_pc[id] = "execute"
    /\ LET step == StepsOf(id)[sagas[id].current_step + 1]
           w1 == [SetStatus(SagaWorld, id, "FAILED") EXCEPT
                    !.sagas[id].error = step.name,
                    !.hist[id].executed =
                        Append(@, [name |-> step.name, raised |-> TRUE])]
           w == PublishSagaEvent(w1, id, "SAGA_STEP_FAILED")
       IN  sagas' = w.sagas /\ saga_hist' = w.hist
    /\ saga_pc' = [saga_pc EXCEPT ![id] = "handle_step_failed"]
    /\ UNCHANGED saga_definitions

\* _handle_step_failed: _compensate_saga, called by the event handler
HandleStepFailed(id) ==
    /\ SagaFrame
    /\ saga_pc[id] = "handle_step_failed"
    /\ \E raising \in SUBSET StepNames :
         LET w == CompensateSaga(SagaWorld, id, raising)
         IN  sagas' = w.sagas /\ saga_hist' = w.hist
    /\ saga_pc' = [saga_pc EXCEPT ![id] = "compensate"]
    /\ UNCHANGED saga_definitions

\* the except clause of _execute_next_step goes on after publish_event
\* returned: _compensate_saga, called directly
CompensateAfterPublish(id) ==
    /\ SagaFrame
    /\ saga_pc[id] = "compensate"
    /\ \E raising \in SUBSET StepNames :
         LET w == CompensateSaga(SagaWorld, id, raising)
         IN  sagas' = w.sagas /\ saga_hist' = w.hist
    /\ saga_pc' = [saga_pc EXCEPT ![id] = "done"]
    /\ UNCHANGED saga_definitions

SagaNext ==
    \/ RegisterSaga
    \/ \E id \in SagaIds : StartSaga(id)
    \/ \E id \in SagaIds : ExecuteNextStepCompletes(id)
    \/ \E id \in SagaIds : ExecuteNextStepBegins(id)
    \/ \E id \in SagaIds : StepSucceeds(id)
    \/ \E id \in SagaIds : StepFails(id)
    \/ \E id \in SagaIds : HandleStepFailed(id)
    \/ \E id \in SagaIds : CompensateAfterPublish(id)

(***************************************************************************)
(* Step-wise SagaOrchestrator of patterns/transaction/saga.py, driven by   *)
(* execute_saga_transaction of app.py                                      *)
(***************************************************************************)
\* requests in flight; each starts a saga of its own (a fresh uuid)
Requests == {"r1", "r2"}

\* order_id of the request: a non-empty string, or an empty one
OrderIds == {"order-1", ""}

\* amount of the request; None and 0 take the same branch of "not amount"
Amounts == {-5, 0, 1, 100}

\* start_saga: the context of execute_saga_transaction; a key not yet set
\* is "absent"
TxSagaState(order_id, amount) ==
    [current_step |-> "START", status |-> "STARTED",
     context |-> [order_id |-> order_id, amount |-> amount,
                  validated |-> "absent", reserved_inventory |-> "absent",
                  payment_processed |-> "absent"],
     completed_steps |-> << >>,
     compensation_began_with |-> << >>, compensated |-> << >>]

\* the registered forward actions: [raised, context]
ValidateOrder(context) ==
    IF context.order_id = ""
    THEN [raised |-> TRUE, context |-> context]
    ELSE [raised |-> FALSE, context |-> [context EXCEPT !.validated = "True"]]

ReserveInventory(context) ==
    [raised |-> FALSE,
     context |-> [context EXCEPT !.reserved_inventory = "reserved"]]

ProcessPayment(context) ==
    IF context.amount = 0 \/ context.amount <= 0
    THEN [raised |-> TRUE, context |-> context]
    ELSE [raised |-> FALSE,
          context |-> [context EXCEPT !.payment_processed = "True"]]

\* self.steps
TxSteps == {"validate_order", "reserve_inventory", "process_payment"}

TxStepAction(step_name, context) ==
    CASE step_name = "validate_order" -> ValidateOrder(context)
      [] step_name = "reserve_inventory" -> ReserveInventory(context)
      [] step_name = "process_payment" -> ProcessPayment(context)

\* self.compensations
TxCompensation(step_name, context) ==
    CASE step_name = "validate_order" -> [context EXCEPT !.validated = "False"]
      [] step_name = "reserve_inventory" ->
             [context EXCEPT !.reserved_inventory = "None"]
      [] step_name = "process_payment" ->
             [context EXCEPT !.payment_processed = "False"]

\* the loop of compensate over reversed(saga.completed_steps), from k down
RECURSIVE TxCompensateLoop(_, _)
TxCompensateLoop(saga, k) ==
    IF k = 0 THEN saga
    ELSE LET step == saga.completed_steps[k]
         IN  IF step \in TxSteps
             THEN TxCompensateLoop(
                      [saga EXCEPT !.context = TxCompensation(step, @),
                                   !.compensated = Append(@, step)],
                      k - 1)
             ELSE TxCompensateLoop(saga, k - 1)

\* compensate
TxCompensate(saga) ==
    LET s1 == [saga EXCEPT !.status = "COMPENSATING",
                           !.compensation_began_with = saga.completed_steps]
        s2 == TxCompensateLoop(s1, Len(s1.completed_steps))
    IN  [s2 EXCEPT !.status = "COMPENSATED"]

\* mutant: a failed step marks the saga FAILED and does not compensate
TxExecuteStep_NoCompensate(saga, step_name) ==
    IF step_name \notin TxSteps
    THEN [ret |-> FALSE, saga |-> saga]
    ELSE LET r == TxStepAction(step_name, saga.context)
         IN  IF r.raised
             THEN [ret |-> FALSE, saga |-> [saga EXCEPT !.status = "FAILED"]]
             ELSE [ret |-> TRUE,
                   saga |-> [saga EXCEPT
                               !.context = r.context,
                               !.completed_steps = Append(@, step_name),
                               !.current_step = step_name]]

\* execute_step
TxExecuteStep(saga, step_name) ==
    IF step_name \notin TxSteps
    THEN [ret |-> FALSE, saga |-> saga]
    ELSE LET r == TxStepAction(step_name, saga.context)
         IN  IF r.raised
             THEN [ret |-> FALSE,
                   saga |-> TxCompensate([saga EXCEPT !.status = "FAILED"])]
             ELSE [ret |-> TRUE,
                   saga |-> [saga EXCEPT
                               !.context = r.context,
                               !.completed_steps = Append(@, step_name),
                               !.current_step = step_name]]

TxSagaInit ==
    /\ tx_sagas = << >>
    /\ tx_pc = [r \in Requests |-> "request"]
    /\ tx_success = [r \in Requests |-> TRUE]

\* execute_saga_transaction: start_saga with the context of the request
TxStartSaga(r) ==
    /\ TxSagaFrame
    /\ tx_pc[r] = "request"
    /\ \E order_id \in OrderIds, amount \in Amounts :
         tx_sagas' = r :> TxSagaState(order_id, amount) @@ tx_sagas
    /\ tx_pc' = [tx_pc EXCEPT ![r] = "validate_order"]
    /\ UNCHANGED tx_success

\* execute_saga_transaction: success &= execute_step(saga_id, step_name),
\* then on to the next line
TxHandlerStep(r, step_name, next_pc) ==
    /\ TxSagaFrame
    /\ tx_pc[r] = step_name
    /\ LET e == TxExecuteStep(tx_sagas[r], step_name)
       IN  /\ tx_sagas' = [tx_sagas EXCEPT ![r] = e.saga]
           /\ tx_success' = [tx_success EXCEPT ![r] = @ /\ e.ret]
    /\ tx_pc' = [tx_pc EXCEPT ![r] = next_pc]

TxValidateOrder(r) == TxHandlerStep(r, "validate_order", "reserve_inventory")
TxReserveInventory(r) ==
    TxHandlerStep(r, "reserve_inventory", "process_payment")
TxProcessPayment(r) == TxHandlerStep(r, "process_payment", "finish")

\* execute_saga_transaction: complete_saga if success, then the response
TxFinish(r) ==
    /\ TxSagaFrame
    /\ tx_pc[r] = "finish"
    /\ tx_sagas' = IF tx_success[r]
                   THEN [tx_sagas EXCEPT ![r].status = "COMPLETED"]
                   ELSE tx_sagas
    /\ tx_pc' = [tx_pc EXCEPT ![r] = "returned"]
    /\ UNCHANGED tx_success

TxSagaNext ==
    \/ \E r \in Requests : TxStartSaga(r)
    \/ \E r \in Requests : TxValidateOrder(r)
    \/ \E r \in Requests : TxReserveInventory(r)
    \/ \E r \in Requests : TxProcessPayment(r)
    \/ \E r \in Requests : TxFinish(r)

(***************************************************************************)
(* OutboxService, OutboxRepository and EventPublisher of                   *)
(* patterns/transaction/outbox.py                                          *)
(*                                                                         *)
(* A record's id is a fresh uuid; the model names a record by its position *)
(* in repository.events, which is the order of the dict.                   *)
(***************************************************************************)
\* event_type of a saved event: one the publisher has subscribers for, and
\* one it has none for (the route takes event_type from the request)
OutboxEventTypes == {"order_created", "unsubscribed"}

\* the keys of event_publisher.subscribers
OutboxSubscribed == {"data_processed", "order_created"}

\* no find_unprocessed was called in the last step
NoRead == [done |-> FALSE, ids |-> << >>]

\* OutboxEvent(...): processed defaults to False
OutboxEvent(event_type) == [event_type |-> event_type, processed |-> FALSE]

\* OutboxRepository.save: self.events[event.id] = event
OutboxSave(events, event) == Append(events, event)

\* OutboxRepository.find_unprocessed, over the records from position i on
RECURSIVE FindUnprocessedFrom(_, _)
FindUnprocessedFrom(events, i) ==
    IF i > Len(events) THEN << >>
    ELSE IF ~events[i].processed
         THEN <<i>> \o FindUnprocessedFrom(events, i + 1)
         ELSE FindUnprocessedFrom(events, i + 1)

FindUnprocessed(events) == FindUnprocessedFrom(events, 1)

\* OutboxRepository.mark_processed
MarkProcessed(events, event_id) ==
    IF event_id \in DOMAIN events
    THEN [events EXCEPT ![event_id].processed = TRUE]
    ELSE events

\* EventPublisher.publish: what can happen inside; in every case the
\* exception of a handler is caught and publish returns None
PublishOutcomes(event_type) ==
    IF event_type \in OutboxSubscribed
    THEN {"handled", "handler_raised"}
    ELSE {"no_subscriber"}

OutboxInit ==
    /\ outbox_events = << >>
    /\ outbox_running = FALSE
    /\ outbox_pc = "not_started"
    /\ outbox_batch = << >>
    /\ outbox_hist = << >>
    /\ outbox_read = NoRead

\* OutboxService.save_event
OutboxSaveEvent ==
    /\ OutboxFrame
    /\ Len(outbox_events) < MaxEvents
    /\ \E event_type \in OutboxEventTypes :
         outbox_events' = OutboxSave(outbox_events, OutboxEvent(event_type))
    /\ outbox_hist' = Append(outbox_hist, << >>)
    /\ outbox_read' = NoRead
    /\ UNCHANGED <<outbox_running, outbox_pc, outbox_batch>>

\* a caller reads the unprocessed records
OutboxFindUnprocessed ==
    /\ OutboxFrame
    /\ outbox_read' = [done |-> TRUE, ids |-> FindUnprocessed(outbox_events)]
    /\ UNCHANGED <<outbox_events, outbox_running, outbox_pc, outbox_batch,
                   outbox_hist>>

\* OutboxService.start_processor
OutboxStartProcessor ==
    /\ OutboxFrame
    /\ ~outbox_running
    /\ outbox_running' = TRUE
    /\ outbox_pc' = "scan"
    /\ outbox_read' = NoRead
    /\ UNCHANGED <<outbox_events, outbox_batch, outbox_hist>>

\* _process_events: find_unprocessed; with nothing to do, sleep and scan again
OutboxScan ==
    /\ OutboxFrame
    /\ outbox_pc = "scan" /\ outbox_running
    /\ outbox_batch' = FindUnprocessed(outbox_events)
    /\ outbox_pc' = IF outbox_batch' = << >> THEN "scan" ELSE "publish"
    /\ outbox_read' = NoRead
    /\ UNCHANGED <<outbox_events, outbox_running, outbox_hist>>

\* _process_events: json.loads of what json.dumps wrote, then
\* self.publisher.publish(event.event_type, event_data)
OutboxPublish ==
    /\ OutboxFrame
    /\ outbox_pc = "publish"
    /\ LET event_id == Head(outbox_batch)
       IN  \E outcome \in PublishOutcomes(outbox_events[event_id].event_type) :
             outbox_hist' = [outbox_hist EXCEPT ![event_id] = Append(@, outcome)]
    /\ outbox_pc' = "mark"
    /\ outbox_read' = NoRead
    /\ UNCHANGED <<outbox_events, outbox_running, outbox_batch>>

\* _process_events: self.repository.mark_processed(event.id), then the next
\* event of the scan, or sleep and scan again
OutboxMarkProcessed ==
    /\ OutboxFrame
    /\ outbox_pc = "mark"
    /\ outbox_events' = MarkProcessed(outbox_events, Head(outbox_batch))
    /\ outbox_batch' = Tail(outbox_batch)
    /\ outbox_pc' = IF outbox_batch' = << >> THEN "scan" ELSE "publish"
    /\ outbox_read' = NoRead
    /\ UNCHANGED <<outbox_running, outbox_hist>>

OutboxNext ==
    \/ OutboxSaveEvent
    \/ OutboxFindUnprocessed
    \/ OutboxStartProcessor
    \/ OutboxScan
    \/ OutboxPublish
    \/ OutboxMarkProcessed

(***************************************************************************)
(* InboxPattern of patterns/messaging/inbox_pattern.py                     *)
(*                                                                         *)
(* handle_message takes no lock and the service answers its requests in    *)
(* threads, so a call is two steps: up to the call of process_event, and   *)
(* from its return or its exception on.                                    *)
(***************************************************************************)
InboxThreads == {"t1", "t2"}

MessageIds == {"m1", "m2"}

\* mutant: the seen set is not consulted
AlreadyProcessed_Never(processed, message_id) == FALSE

\* message_id in self.processed_messages
AlreadyProcessed(processed, message_id) == message_id \in processed

InboxInit ==
    /\ inbox_processed = {}
    /\ inbox_events = << >>
    /\ inbox_pc = [t \in InboxThreads |-> "idle"]
    /\ inbox_msg = [t \in InboxThreads |-> "none"]
    /\ inbox_ret = [t \in InboxThreads |-> "none"]
    /\ inbox_hist = [runs |-> [m \in MessageIds |-> << >>],
                     skipped |-> [m \in MessageIds |-> 0],
                     overlapped |-> [m \in MessageIds |-> FALSE],
                     deliveries |-> 0,
                     last |-> [thread |-> "none", message_id |-> "none"]]

\* history: thread t was handed message_id
NoteDelivery(h, t, message_id) ==
    [h EXCEPT !.deliveries = @ + 1,
              !.last = [thread |-> t, message_id |-> message_id]]

\* handle_message, id already processed: return True
InboxAlreadyProcessed(t) ==
    /\ InboxFrame
    /\ inbox_pc[t] = "idle"
    /\ inbox_hist.deliveries < MaxDeliveries
    /\ \E message_id \in MessageIds :
         /\ AlreadyProcessed(inbox_processed, message_id)
         /\ inbox_msg' = [inbox_msg EXCEPT ![t] = message_id]
         /\ inbox_hist' = [NoteDelivery(inbox_hist, t, message_id) EXCEPT
                              !.skipped[message_id] = @ + 1]
    /\ inbox_ret' = [inbox_ret EXCEPT ![t] = "True"]
    /\ UNCHANGED <<inbox_processed, inbox_events, inbox_pc>>

\* handle_message, id not processed: a new inbox_event replaces the entry of
\* the id, and process_event is called
InboxReceive(t) ==
    /\ InboxFrame
    /\ inbox_pc[t] = "idle"
    /\ inbox_hist.deliveries < MaxDeliveries
    /\ \E message_id \in MessageIds :
         /\ ~AlreadyProcessed(inbox_processed, message_id)
         /\ inbox_msg' = [inbox_msg EXCEPT ![t] = message_id]
         /\ inbox_events' =
               message_id :> [owner |-> t, processed |-> FALSE] @@ inbox_events
         /\ inbox_hist' =
               [NoteDelivery(inbox_hist, t, message_id) EXCEPT
                   !.overlapped[message_id] =
                       @ \/ \E u \in InboxThreads \ {t} :
                                /\ inbox_pc[u] = "processing"
                                /\ inbox_msg[u] = message_id]
    /\ inbox_pc' = [inbox_pc EXCEPT ![t] = "processing"]
    /\ inbox_ret' = [inbox_ret EXCEPT ![t] = "none"]
    /\ UNCHANGED inbox_processed

\* process_event returned: the inbox_event of this call is marked (it is the
\* entry of the id only if no later call replaced it), the id joins the set
InboxProcessReturns(t) ==
    /\ InboxFrame
    /\ inbox_pc[t] = "processing"
    /\ LET message_id == inbox_msg[t]
       IN  /\ inbox_events' =
                 IF inbox_events[message_id].owner = t
                 THEN [inbox_events EXCEPT ![message_id].processed = TRUE]
                 ELSE inbox_events
           /\ inbox_processed' = inbox_processed \cup {message_id}
           /\ inbox_hist' = [inbox_hist EXCEPT
                                !.runs[message_id] = Append(@, "returned")]
    /\ inbox_pc' = [inbox_pc EXCEPT ![t] = "idle"]
    /\ inbox_ret' = [inbox_ret EXCEPT ![t] = "True"]
    /\ UNCHANGED inbox_msg

\* mutant: a message whose process_event raised is recorded as processed
InboxProcessRaises_Records(t) ==
    /\ InboxFrame
    /\ inbox_pc[t] = "processing"
    /\ inbox_hist' = [inbox_hist EXCEPT
                         !.runs[inbox_msg[t]] = Append(@, "raised")]
    /\ inbox_processed' = inbox_processed \cup {inbox_msg[t]}
    /\ inbox_pc' = [inbox_pc EXCEPT ![t] = "idle"]
    /\ inbox_ret' = [inbox_ret EXCEPT ![t] = "False"]
    /\ UNCHANGED <<inbox_events, inbox_msg>>

\* process_event raised: return False
InboxProcessRaises(t) ==
    /\ InboxFrame
    /\ inbox_pc[t] = "processing"
    /\ inbox_hist' = [inbox_hist EXCEPT
                         !.runs[inbox_msg[t]] = Append(@, "raised")]
    /\ inbox_pc' = [inbox_pc EXCEPT ![t] = "idle"]
    /\ inbox_ret' = [inbox_ret EXCEPT ![t] = "False"]
    /\ UNCHANGED <<inbox_processed, inbox_events, inbox_msg>>

InboxNext ==
    \/ \E t \in InboxThreads : InboxAlreadyProcessed(t)
    \/ \E t \in InboxThreads : InboxReceive(t)
    \/ \E t \in InboxThreads : InboxProcessReturns(t)
    \/ \E t \in InboxThreads : InboxProcessRaises(t)

(***************************************************************************)
(* SagaOrchestrator of patterns/messaging/event_streaming.py, called from  *)
(* several threads of the service                                          *)
(*                                                                         *)
(* The steps are the pieces of start_saga, _execute_next_step and          *)
(* _compensate_saga between two points at which another thread can run:    *)
(* self.lock is held from "with self.lock" to the end of its block, a      *)
(* forward action runs with the lock released, a compensating action runs  *)
(* with the lock held. self.sagas maps a saga id to a SagaState object; a   *)
(* start_saga with an id already in use puts a new object under the id,    *)
(* and a thread in the middle of a step still holds the object it looked   *)
(* up, so objects are told apart by their position in orch_objs.           *)
(***************************************************************************)
OrchThreads == {"t1", "t2"}

OrchSagaIds == {"s1", "s2"}

\* the step list the service registers at import: three steps, each with a
\* compensating action
ServiceSteps ==
    <<[name |-> "A", has_compensate |-> TRUE],
      [name |-> "B", has_compensate |-> TRUE],
      [name |-> "C", has_compensate |-> TRUE]>>

\* the local variables of a thread that is not inside the orchestrator
OrchIdle ==
    [pc |-> "idle", saga_id |-> "none", saga |-> 0, step |-> 0, k |-> 0,
     after |-> "none"]

\* get_saga_status was not called in the last step
NothingRead == [done |-> FALSE, saga |-> 0, seen |-> SagaState("none")]

OrchInit ==
    /\ orch_lock = "free"
    /\ orch_objs = << >>
    /\ orch_sagas = << >>
    /\ orch_th = [t \in OrchThreads |-> OrchIdle]
    /\ orch_read = NothingRead

\* self.saga_definitions.get(saga.saga_type, [])
OrchStepsOf(saga) ==
    IF saga.saga_type \in DOMAIN saga_definitions
    THEN saga_definitions[saga.saga_type] ELSE << >>

\* start_saga up to its call of _execute_next_step: the type is registered,
\* a new SagaState is put under saga_id with the lock held
OrchStartSaga(t) ==
    /\ OrchFrame
    /\ orch_th[t].pc = "idle"
    /\ orch_lock = "free"
    /\ Len(orch_objs) < MaxStarts
    /\ \E saga_id \in OrchSagaIds, saga_type \in DOMAIN saga_definitions :
         /\ orch_objs' = Append(orch_objs, SagaState(saga_type))
         /\ orch_sagas' = saga_id :> (Len(orch_objs) + 1) @@ orch_sagas
         /\ orch_th' = [orch_th EXCEPT
                          ![t] = [OrchIdle EXCEPT !.pc = "next",
                                                  !.saga_id = saga_id]]
    /\ orch_read' = NothingRead
    /\ UNCHANGED orch_lock

\* _execute_next_step, no step left: the lock is taken, COMPLETED, and
\* _publish_saga_event(saga, 'SAGA_COMPLETED') is called inside the block
OrchNextCompletes(t) ==
    /\ OrchFrame
    /\ orch_th[t].pc = "next"
    /\ orch_lock = "free"
    /\ LET o == orch_sagas[orch_th[t].saga_id]
       IN  /\ SagaFinished(orch_objs[o], OrchStepsOf(orch_objs[o]))
           /\ orch_objs' = [orch_objs EXCEPT ![o].status = "COMPLETED"]
           /\ orch_th' = [orch_th EXCEPT ![t].pc = "publish_completed",
                                         ![t].saga = o]
    /\ orch_lock' = t
    /\ orch_read' = NothingRead
    /\ UNCHANGED orch_sagas

\* publish_event of SAGA_COMPLETED returned (the local handlers ran, the
\* broker send was tried): the block ends, the lock is released and every
\* frame of the thread returns
OrchCompletedPublished(t) ==
    /\ OrchFrame
    /\ orch_th[t].pc = "publish_completed"
    /\ orch_lock' = "free"
    /\ orch_th' = [orch_th EXCEPT ![t] = OrchIdle]
    /\ orch_read' = NothingRead
    /\ UNCHANGED <<orch_objs, orch_sagas>>

\* _execute_next_step, a step is left: IN_PROGRESS with the lock held, then
\* the lock is released and step.execute(saga.context) is called
OrchNextBegins(t) ==
    /\ OrchFrame
    /\ orch_th[t].pc = "next"
    /\ orch_lock = "free"
    /\ LET o == orch_sagas[orch_th[t].saga_id]
       IN  /\ ~SagaFinished(orch_objs[o], OrchStepsOf(orch_objs[o]))
           /\ orch_objs' = [orch_objs EXCEPT ![o].status = "IN_PROGRESS"]
           /\ orch_th' = [orch_th EXCEPT
                            ![t].pc = "execute",
                            ![t].saga = o,
                            ![t].step = orch_objs[o].current_step + 1]
    /\ orch_read' = NothingRead
    /\ UNCHANGED <<orch_lock, orch_sagas>>

\* the step a thread took from the step list
OrchStep(t) == OrchStepsOf(orch_objs[orch_th[t].saga])[orch_th[t].step]

\* step.execute returned: saga.context.update(result)
OrchStepReturns(t) ==
    /\ OrchFrame
    /\ orch_th[t].pc = "execute"
    /\ orch_objs' = [orch_objs EXCEPT
                       ![orch_th[t].saga].context = @ \cup {OrchStep(t).name}]
    /\ orch_th' = [orch_th EXCEPT ![t].pc = "append"]
    /\ orch_read' = NothingRead
    /\ UNCHANGED <<orch_lock, orch_sagas>>

\* saga.completed_steps.append(step.name)
OrchAppend(t) ==
    /\ OrchFrame
    /\ orch_th[t].pc = "append"
    /\ orch_objs' = [orch_objs EXCEPT
                       ![orch_th[t].saga].completed_steps =
                           Append(@, OrchStep(t).name)]
    /\ orch_th' = [orch_th EXCEPT ![t].pc = "advance"]
    /\ orch_read' = NothingRead
    /\ UNCHANGED <<orch_lock, orch_sagas>>

\* saga.current_step += 1, then SAGA_STEP_COMPLETED is published and its
\* handler calls _execute_next_step(saga_id)
OrchAdvance(t) ==
    /\ OrchFrame
    /\ orch_th[t].pc = "advance"
    /\ orch_objs' = [orch_objs EXCEPT ![orch_th[t].saga].current_step = @ + 1]
    /\ orch_th' = [orch_th EXCEPT ![t].pc = "next"]
    /\ orch_read' = NothingRead
    /\ UNCHANGED <<orch_lock, orch_sagas>>

\* step.execute raised: FAILED, then SAGA_STEP_FAILED is published and its
\* handler calls _compensate_saga(saga_id); the except clause will call it
\* once more after that
OrchStepRaises(t) ==
    /\ OrchFrame
    /\ orch_th[t].pc = "execute"
    /\ orch_objs' = [orch_objs EXCEPT
                       ![orch_th[t].saga].status = "FAILED",
                       ![orch_th[t].saga].error = OrchStep(t).name]
    /\ orch_th' = [orch_th EXCEPT ![t].pc = "compensate",
                                  ![t].after = "compensate"]
    /\ orch_read' = NothingRead
    /\ UNCHANGED <<orch_lock, orch_sagas>>

\* _compensate_saga: the lock is taken, COMPENSATING, the sweep over
\* reversed(saga.completed_steps) starts
OrchCompensateBegins(t) ==
    /\ OrchFrame
    /\ orch_th[t].pc = "compensate"
    /\ orch_lock = "free"
    /\ LET o == orch_sagas[orch_th[t].saga_id]
       IN  /\ orch_objs' = [orch_objs EXCEPT ![o].status = "COMPENSATING"]
           /\ orch_th' = [orch_th EXCEPT
                            ![t].pc = "sweep",
                            ![t].saga = o,
                            ![t].k = Len(orch_objs[o].completed_steps)]
    /\ orch_lock' = t
    /\ orch_read' = NothingRead
    /\ UNCHANGED orch_sagas

\* the sweep, a name is left: its step is looked up and, if it has a
\* compensating action, step.compensate(saga.context) is called
OrchSweepNext(t) ==
    /\ OrchFrame
    /\ orch_th[t].pc = "sweep"
    /\ orch_th[t].k > 0
    /\ LET saga == orch_objs[orch_th[t].saga]
           steps == OrchStepsOf(saga)
           i == FirstNamed(steps, saga.completed_steps[orch_th[t].k], 1)
       IN  orch_th' =
               IF i # 0 /\ steps[i].has_compensate
               THEN [orch_th EXCEPT ![t].pc = "compensating"]
               ELSE [orch_th EXCEPT ![t].k = @ - 1]
    /\ orch_read' = NothingRead
    /\ UNCHANGED <<orch_lock, orch_objs, orch_sagas>>

\* step.compensate returned, or raised and was logged: on with the sweep
OrchCompensationEnds(t) ==
    /\ OrchFrame
    /\ orch_th[t].pc = "compensating"
    /\ orch_th' = [orch_th EXCEPT ![t].pc = "sweep", ![t].k = @ - 1]
    /\ orch_read' = NothingRead
    /\ UNCHANGED <<orch_lock, orch_objs, orch_sagas>>

\* the sweep is over: COMPENSATED, and
\* _publish_saga_event(saga, 'SAGA_COMPENSATED') is called inside the block
OrchSweepEnds(t) ==
    /\ OrchFrame
    /\ orch_th[t].pc = "sweep"
    /\ orch_th[t].k = 0
    /\ orch_objs' = [orch_objs EXCEPT ![orch_th[t].saga].status = "COMPENSATED"]
    /\ orch_th' = [orch_th EXCEPT ![t].pc = "publish_compensated"]
    /\ orch_read' = NothingRead
    /\ UNCHANGED <<orch_lock, orch_sagas>>

\* publish_event of SAGA_COMPENSATED returned: the block ends, the lock is
\* released; the handler returns into the except clause, or the except
\* clause ends
OrchCompensatedPublished(t) ==
    /\ OrchFrame
    /\ orch_th[t].pc = "publish_compensated"
    /\ orch_lock' = "free"
    /\ orch_th' = [orch_th EXCEPT
                     ![t] = IF orch_th[t].after = "compensate"
                            THEN [@ EXCEPT !.pc = "compensate",
                                           !.after = "return"]
                            ELSE OrchIdle]
    /\ orch_read' = NothingRead
    /\ UNCHANGED <<orch_objs, orch_sagas>>

\* get_saga_status: self.sagas.get(saga_id) with the lock held; the caller
\* gets the SagaState object itself and reads its fields
OrchGetSagaStatus ==
    /\ OrchFrame
    /\ orch_lock = "free"
    /\ \E saga_id \in DOMAIN orch_sagas :
         orch_read' = [done |-> TRUE, saga |-> orch_sagas[saga_id],
                       seen |-> orch_objs[orch_sagas[saga_id]]]
    /\ UNCHANGED <<orch_lock, orch_objs, orch_sagas, orch_th>>

OrchNext ==
    \/ \E t \in OrchThreads : OrchStartSaga(t)
    \/ \E t \in OrchThreads : OrchNextCompletes(t)
    \/ \E t \in OrchThreads : OrchCompletedPublished(t)
    \/ \E t \in OrchThreads : OrchNextBegins(t)
    \/ \E t \in OrchThreads : OrchStepReturns(t)
    \/ \E t \in OrchThreads : OrchAppend(t)
    \/ \E t \in OrchThreads : OrchAdvance(t)
    \/ \E t \in OrchThreads : OrchStepRaises(t)
    \/ \E t \in OrchThreads : OrchCompensateBegins(t)
    \/ \E t \in OrchThreads : OrchSweepNext(t)
    \/ \E t \in OrchThreads : OrchCompensationEnds(t)
    \/ \E t \in OrchThreads : OrchSweepEnds(t)
    \/ \E t \in OrchThreads : OrchCompensatedPublished(t)
    \/ OrchGetSagaStatus

(***************************************************************************)
(* OutboxService.start_processor, stop_processor and the threads they      *)
(* create, of patterns/transaction/outbox.py                               *)
(*                                                                         *)
(* Neither method takes a lock, so each statement is a step of its own.    *)
(* What one pass of the loop of _process_events does to the records is the *)
(* outbox component above; here a pass is one step.                        *)
(***************************************************************************)
\* the threads that call start_processor and stop_processor
ProcCallers == {"c1", "c2"}

\* a caller outside both methods, and what its last call did
ProcCallerIdle(ret) == [pc |-> "idle", joins |-> 0, ret |-> ret]

\* the threads that are alive inside _process_events
ProcInLoop ==
    {p \in DOMAIN proc_threads : proc_threads[p] \in {"testing", "scanning"}}

\* the callers between the test of start_processor and its Thread(...)
ProcAboutToCreate ==
    {c \in ProcCallers : proc_callers[c].pc \in {"set_running", "create"}}

ProcInit ==
    /\ proc_running = FALSE
    /\ proc_thread = 0
    /\ proc_threads = << >>
    /\ proc_callers = [c \in ProcCallers |-> ProcCallerIdle("none")]

\* start_processor: "if not self.running" finds it running and returns
StartProcessorRunning(c) ==
    /\ ProcFrame
    /\ proc_callers[c].pc = "idle"
    /\ proc_running
    /\ proc_callers' = [proc_callers EXCEPT ![c] = ProcCallerIdle("running")]
    /\ UNCHANGED <<proc_running, proc_thread, proc_threads>>

\* start_processor: "if not self.running" finds it not running
StartProcessorTest(c) ==
    /\ ProcFrame
    /\ proc_callers[c].pc = "idle"
    /\ ~proc_running
    /\ Len(proc_threads) + Cardinality(ProcAboutToCreate) < MaxThreads
    /\ proc_callers' = [proc_callers EXCEPT ![c].pc = "set_running"]
    /\ UNCHANGED <<proc_running, proc_thread, proc_threads>>

\* start_processor: self.running = True
StartProcessorSetRunning(c) ==
    /\ ProcFrame
    /\ proc_callers[c].pc = "set_running"
    /\ proc_running' = TRUE
    /\ proc_callers' = [proc_callers EXCEPT ![c].pc = "create"]
    /\ UNCHANGED <<proc_thread, proc_threads>>

\* start_processor: self.processor_thread = threading.Thread(...)
StartProcessorCreate(c) ==
    /\ ProcFrame
    /\ proc_callers[c].pc = "create"
    /\ proc_threads' = Append(proc_threads, "created")
    /\ proc_thread' = Len(proc_threads) + 1
    /\ proc_callers' = [proc_callers EXCEPT ![c].pc = "start"]
    /\ UNCHANGED proc_running

\* start_processor: self.processor_thread.start() on the thread the
\* attribute names now; Thread.start raises RuntimeError on a thread that
\* was started before
StartProcessorStart(c) ==
    /\ ProcFrame
    /\ proc_callers[c].pc = "start"
    /\ IF proc_threads[proc_thread] = "created"
       THEN /\ proc_threads' = [proc_threads EXCEPT ![proc_thread] = "testing"]
            /\ proc_callers' =
                   [proc_callers EXCEPT ![c] = ProcCallerIdle("started")]
       ELSE /\ proc_callers' =
                   [proc_callers EXCEPT ![c] = ProcCallerIdle("raised")]
            /\ UNCHANGED proc_threads
    /\ UNCHANGED <<proc_running, proc_thread>>

\* stop_processor: self.running = False
StopProcessorClear(c) ==
    /\ ProcFrame
    /\ proc_callers[c].pc = "idle"
    /\ proc_thread # 0
    /\ proc_running' = FALSE
    /\ proc_callers' = [proc_callers EXCEPT ![c].pc = "stop_test"]
    /\ UNCHANGED <<proc_thread, proc_threads>>

\* stop_processor: "if self.processor_thread" and the thread join is
\* called on
StopProcessorTest(c) ==
    /\ ProcFrame
    /\ proc_callers[c].pc = "stop_test"
    /\ proc_callers' = [proc_callers EXCEPT ![c].pc = "join",
                                            ![c].joins = proc_thread]
    /\ UNCHANGED <<proc_running, proc_thread, proc_threads>>

\* stop_processor: join returns once the thread has exited, and raises
\* RuntimeError on a thread that was not started yet
StopProcessorJoin(c) ==
    /\ ProcFrame
    /\ proc_callers[c].pc = "join"
    /\ proc_threads[proc_callers[c].joins] \in {"exited", "created"}
    /\ proc_callers' =
           [proc_callers EXCEPT
               ![c] = IF proc_threads[proc_callers[c].joins] = "exited"
                      THEN ProcCallerIdle("stopped")
                      ELSE ProcCallerIdle("raised")]
    /\ UNCHANGED <<proc_running, proc_thread, proc_threads>>

\* _process_events: "while self.running"
ProcessEventsTest(p) ==
    /\ ProcFrame
    /\ proc_threads[p] = "testing"
    /\ proc_threads' = [proc_threads EXCEPT
                          ![p] = IF proc_running THEN "scanning" ELSE "exited"]
    /\ UNCHANGED <<proc_running, proc_thread, proc_callers>>

\* _process_events: one pass of the loop, up to the end of its sleep
ProcessEventsPass(p) ==
    /\ ProcFrame
    /\ proc_threads[p] = "scanning"
    /\ proc_threads' = [proc_threads EXCEPT ![p] = "testing"]
    /\ UNCHANGED <<proc_running, proc_thread, proc_callers>>

ProcNext ==
    \/ \E c \in ProcCallers : StartProcessorRunning(c)
    \/ \E c \in ProcCallers : StartProcessorTest(c)
    \/ \E c \in ProcCallers : StartProcessorSetRunning(c)
    \/ \E c \in ProcCallers : StartProcessorCreate(c)
    \/ \E c \in ProcCallers : StartProcessorStart(c)
    \/ \E c \in ProcCallers : StopProcessorClear(c)
    \/ \E c \in ProcCallers : StopProcessorTest(c)
    \/ \E c \in ProcCallers : StopProcessorJoin(c)
    \/ \E p \in DOMAIN proc_threads : ProcessEventsTest(p)
    \/ \E p \in DOMAIN proc_threads : ProcessEventsPass(p)

(***************************************************************************)
(* TwoPhaseCommit of patterns/messaging/inbox_pattern.py                   *)
(*                                                                         *)
(* execute_transaction runs in the caller's thread from its first line to  *)
(* its return or raise; its participants are the                           *)
(* TwoPhaseCommitParticipant objects above.                                *)
(***************************************************************************)
\* the keys of operations: the registered names and one that is not
OperationNames == Participants \cup {"unregistered"}

\* operations.keys(), in the order of the dict: no name twice
OperationLists ==
    {q \in SeqsUpTo(OperationNames, MaxParticipants) :
        \A i, j \in DOMAIN q : i # j => q[i] # q[j]}

\* the participants a call can reach: those its operations name
Named(operations) ==
    {operations[i] : i \in DOMAIN operations} \cap Participants

\* how the hook of each participant a call can reach ends during the call
HookChoices(operations) == [Named(operations) -> HookOutcomes]

NoTransaction == [op |-> "none", tx_id |-> 0, operations |-> << >>,
                  validate |-> << >>, raised |-> FALSE, commit_calls |-> 0]

ProtocolInit ==
    /\ protocol_transactions = << >>
    /\ protocol_last = NoTransaction
    /\ protocol_ops = 0

\* participant.abort(tx_id) inside the try of abort_transaction: what
\* execute_abort raises is caught and logged, so the participant is left
\* the same however the hook ends
AbortCaught(prepared, tx_id) ==
    CHOOSE after \in {ParticipantAbort(prepared, tx_id, execute_abort).prepared :
                         execute_abort \in HookOutcomes} : TRUE

\* the loop of abort_transaction over transaction['participants'], from i
RECURSIVE ProtocolAbortLoop(_, _, _, _)
ProtocolAbortLoop(prepared, tx_id, names, i) ==
    IF i > Len(names) THEN prepared
    ELSE IF names[i] \in Participants
         THEN ProtocolAbortLoop(
                  [prepared EXCEPT ![names[i]] = AbortCaught(@, tx_id)],
                  tx_id, names, i + 1)
         ELSE ProtocolAbortLoop(prepared, tx_id, names, i + 1)

\* abort_transaction; w holds self.transactions, the participants'
\* prepared_transactions and the count of execute_commit invocations
ProtocolAbortTransaction(w, tx_id) ==
    IF tx_id \in DOMAIN w.transactions
    THEN [w EXCEPT
             !.prepared =
                 ProtocolAbortLoop(@, tx_id,
                                   w.transactions[tx_id].participants, 1),
             !.transactions[tx_id].status = "ABORTED"]
    ELSE w

\* mutant: a prepare that returns False does not stop Phase 1
RECURSIVE ProtocolPrepareLoop_IgnoresFalse(_, _, _, _, _)
ProtocolPrepareLoop_IgnoresFalse(w, tx_id, operations, i, validate) ==
    IF i > Len(operations) THEN [failed |-> FALSE, w |-> w]
    ELSE IF operations[i] \notin Participants
         THEN [failed |-> TRUE, w |-> w]
         ELSE LET r == ParticipantPrepare(w.prepared[operations[i]], tx_id,
                                          validate[operations[i]])
              IN  ProtocolPrepareLoop_IgnoresFalse(
                      [w EXCEPT !.prepared[operations[i]] = r.prepared],
                      tx_id, operations, i + 1, validate)

\* Phase 1 of execute_transaction from operation i on: stops at the first
\* name without a participant or participant whose prepare returns False
RECURSIVE ProtocolPrepareLoop(_, _, _, _, _)
ProtocolPrepareLoop(w, tx_id, operations, i, validate) ==
    IF i > Len(operations) THEN [failed |-> FALSE, w |-> w]
    ELSE IF operations[i] \notin Participants
         THEN [failed |-> TRUE, w |-> w]
         ELSE LET r == ParticipantPrepare(w.prepared[operations[i]], tx_id,
                                          validate[operations[i]])
                  w1 == [w EXCEPT !.prepared[operations[i]] = r.prepared]
              IN  IF r.ret = "False"
                  THEN [failed |-> TRUE, w |-> w1]
                  ELSE ProtocolPrepareLoop(w1, tx_id, operations, i + 1,
                                           validate)

\* Phase 2 of execute_transaction from operation i on: stops at the first
\* commit that raises; calls counts the commits invoked
RECURSIVE ProtocolCommitLoop(_, _, _, _, _, _)
ProtocolCommitLoop(w, tx_id, operations, i, execute_commit, calls) ==
    IF i > Len(operations) THEN [raised |-> FALSE, w |-> w, calls |-> calls]
    ELSE LET r == ParticipantCommit(w.prepared[operations[i]], tx_id,
                                    execute_commit[operations[i]])
             w1 == [w EXCEPT
                       !.prepared[operations[i]] = r.prepared,
                       !.hist[operations[i]][tx_id] =
                           IF r.executed THEN @ + 1 ELSE @]
         IN  IF r.ret # "None"
             THEN [raised |-> TRUE, w |-> w1, calls |-> calls + 1]
             ELSE ProtocolCommitLoop(w1, tx_id, operations, i + 1,
                                     execute_commit, calls + 1)

\* execute_transaction
ProtocolExecuteTransaction(w, tx_id, operations, validate, execute_commit) ==
    LET w0 == [w EXCEPT
                  !.transactions =
                      (tx_id :> [status |-> "PREPARING",
                                 participants |-> operations]) @@ @]
        p == ProtocolPrepareLoop(w0, tx_id, operations, 1, validate)
    IN  IF p.failed
        THEN [raised |-> TRUE, commit_calls |-> 0,
              w |-> ProtocolAbortTransaction(
                        ProtocolAbortTransaction(p.w, tx_id), tx_id)]
        ELSE LET w1 == [p.w EXCEPT
                           !.transactions[tx_id].status = "COMMITTING"]
                 c == ProtocolCommitLoop(w1, tx_id, operations, 1,
                                         execute_commit, 0)
             IN  IF c.raised
                 THEN [raised |-> TRUE, commit_calls |-> c.calls,
                       w |-> ProtocolAbortTransaction(c.w, tx_id)]
                 ELSE [raised |-> FALSE, commit_calls |-> c.calls,
                       w |-> [c.w EXCEPT
                                 !.transactions[tx_id].status = "COMMITTED"]]

\* the objects execute_transaction and abort_transaction work on
ProtocolWorld ==
    [transactions |-> protocol_transactions, prepared |-> part_prepared,
     hist |-> part_hist]

CallExecuteTransaction ==
    /\ ProtocolFrame
    /\ protocol_ops < MaxProtocolCalls
    /\ \E tx_id \in PartTxIds, operations \in OperationLists :
       \E validate \in HookChoices(operations),
          execute_commit \in HookChoices(operations) :
         LET r == ProtocolExecuteTransaction(ProtocolWorld, tx_id, operations,
                                             validate, execute_commit)
         IN  /\ protocol_transactions' = r.w.transactions
             /\ part_prepared' = r.w.prepared
             /\ part_hist' = r.w.hist
             /\ protocol_last' = [op |-> "execute_transaction",
                                  tx_id |-> tx_id, operations |-> operations,
                                  validate |-> validate, raised |-> r.raised,
                                  commit_calls |-> r.commit_calls]
    /\ protocol_ops' = protocol_ops + 1
    /\ UNCHANGED <<part_last, part_ops>>

\* abort_transaction called by itself
CallProtocolAbort ==
    /\ ProtocolFrame
    /\ protocol_ops < MaxProtocolCalls
    /\ \E tx_id \in PartTxIds :
         LET w == ProtocolAbortTransaction(ProtocolWorld, tx_id)
         IN  /\ protocol_transactions' = w.transactions
             /\ part_prepared' = w.prepared
             /\ protocol_last' = [NoTransaction EXCEPT
                                     !.op = "abort_transaction",
                                     !.tx_id = tx_id]
    /\ protocol_ops' = protocol_ops + 1
    /\ UNCHANGED <<part_hist, part_last, part_ops>>

ProtocolNext ==
    \/ CallExecuteTransaction
    \/ CallProtocolAbort

(***************************************************************************)
(* OutboxPattern and EventStreamProcessor.publish_event of                 *)
(* patterns/messaging/event_streaming.py                                   *)
(*                                                                         *)
(* An event's id is a fresh uuid; the model names an event by the order in *)
(* which it was saved. _flush_events empties the deque under the lock and  *)
(* publishes what it took out one event after the other.                   *)
(***************************************************************************)
\* how producer.send(...).get(timeout=10) ends when the producer is
\* connected
SendOutcomes == {"acked", "send_failed"}

\* publish_event: the local handlers run first, then the event is sent if
\* the producer is connected; what the send raises is caught and logged, so
\* publish_event returns the event in every case
PublishEvent(connected, send) ==
    [raised |-> FALSE,
     outcome |-> IF connected THEN send ELSE "not_connected"]

\* the first loop of _flush_events: the deque is emptied, the events not
\* yet processed are kept, in order
RECURSIVE EventsToProcess(_)
EventsToProcess(queue) ==
    IF queue = << >> THEN << >>
    ELSE IF ~Head(queue).processed
         THEN <<Head(queue)>> \o EventsToProcess(Tail(queue))
         ELSE EventsToProcess(Tail(queue))

\* the second loop of _flush_events from event k on: publish_event, then
\* processed = True; an event whose publish_event raised is put back at the
\* left of the deque. w holds the deque and the history of the sends
RECURSIVE FlushLoop(_, _, _, _, _)
FlushLoop(w, events, k, connected, sends) ==
    IF k > Len(events) THEN w
    ELSE LET event == events[k]
             r == PublishEvent(connected, sends[event.id])
             w1 == [w EXCEPT !.hist[event.id] = Append(@, r.outcome)]
         IN  IF r.raised
             THEN FlushLoop([w1 EXCEPT !.queue = <<event>> \o @],
                            events, k + 1, connected, sends)
             ELSE FlushLoop(w1, events, k + 1, connected, sends)

\* _flush_events
FlushEvents(w, connected, sends) ==
    FlushLoop([w EXCEPT !.queue = << >>], EventsToProcess(w.queue), 1,
              connected, sends)

\* EventStreamProcessor.__init__: _connect may fail, which leaves the
\* processor disconnected; OutboxPattern.__init__: an empty deque
PatternInit ==
    /\ pattern_connected \in BOOLEAN
    /\ pattern_queue = << >>
    /\ pattern_hist = << >>

\* OutboxPattern.save_event
PatternSaveEvent ==
    /\ PatternFrame
    /\ Len(pattern_hist) < MaxEvents
    /\ \E event_type \in OutboxEventTypes :
         pattern_queue' =
             Append(pattern_queue,
                    [id |-> Len(pattern_hist) + 1, event_type |-> event_type,
                     processed |-> FALSE])
    /\ pattern_hist' = Append(pattern_hist, << >>)
    /\ UNCHANGED pattern_connected

\* _process_outbox: a flush_interval has passed, _flush_events
PatternFlushEvents ==
    /\ PatternFrame
    /\ pattern_queue # << >>
    /\ \E sends \in [DOMAIN pattern_hist -> SendOutcomes] :
         LET w == FlushEvents([queue |-> pattern_queue, hist |-> pattern_hist],
                              pattern_connected, sends)
         IN  /\ pattern_queue' = w.queue
             /\ pattern_hist' = w.hist
    /\ UNCHANGED pattern_connected

\* EventStreamProcessor.disconnect
PatternDisconnect ==
    /\ PatternFrame
    /\ pattern_connected
    /\ pattern_connected' = FALSE
    /\ UNCHANGED <<pattern_queue, pattern_hist>>

\* an OutboxPattern nobody uses, on a processor that did not connect
PatternQuiet == PatternInit /\ ~pattern_connected

PatternNext ==
    \/ PatternSaveEvent
    \/ PatternFlushEvents
    \/ PatternDisconnect

\* the orchestrator after the service registered its saga
OrchRegistered ==
    /\ saga_definitions = [saga_type \in SagaTypes |-> ServiceSteps]
    /\ sagas = << >>
    /\ saga_pc = [id \in SagaIds |-> "none"]
    /\ saga_hist = [id \in SagaIds |-> NoHistory]

\* a breaker nobody calls: the largest parameters of the model
CBQuiet ==
    CBInit /\ failure_threshold = MaxThreshold /\ recovery_timeout = MaxTimeout

\* the components nobody calls
OthersQuiet ==
    OutboxInit /\ InboxInit /\ OrchInit /\ PartInit /\ ExecInit /\ ProcInit
    /\ ProtocolInit /\ PatternQuiet

\* the circuit breaker alone
InitCB == CBInit /\ TPCInit /\ SagaInit /\ TxSagaInit /\ OthersQuiet
SpecCB == InitCB /\ [][CBNext]_vars

\* the two-phase-commit coordinator alone
Init2PC == CBQuiet /\ TPCInit /\ SagaInit /\ TxSagaInit /\ OthersQuiet
Spec2PC == Init2PC /\ [][TPCNext]_vars

\* the event-driven saga orchestrator alone
InitSaga == CBQuiet /\ TPCInit /\ SagaInit /\ TxSagaInit /\ OthersQuiet
SpecSaga == InitSaga /\ [][SagaNext]_vars

\* the step-wise saga orchestrator and its request handler alone
InitTxSaga == CBQuiet /\ TPCInit /\ SagaInit /\ TxSagaInit /\ OthersQuiet
SpecTxSaga == InitTxSaga /\ [][TxSagaNext]_vars

\* the outbox alone
InitOutbox == CBQuiet /\ TPCInit /\ SagaInit /\ TxSagaInit /\ OthersQuiet
SpecOutbox == InitOutbox /\ [][OutboxNext]_vars

\* the inbox alone
InitInbox == CBQuiet /\ TPCInit /\ SagaInit /\ TxSagaInit /\ OthersQuiet
SpecInbox == InitInbox /\ [][InboxNext]_vars

\* the event-driven saga orchestrator called from several threads
InitSagaThreads ==
    CBQuiet /\ TPCInit /\ OrchRegistered /\ TxSagaInit /\ OthersQuiet
SpecSagaThreads == InitSagaThreads /\ [][OrchNext]_vars

\* the participants of the two protocols called directly
InitParticipants == CBQuiet /\ TPCInit /\ SagaInit /\ TxSagaInit /\ OthersQuiet
SpecParticipants == InitParticipants /\ [][PartNext]_vars

\* execute_two_phase_commit with managers that may not return
Init2PCExec == CBQuiet /\ TPCInit /\ SagaInit /\ TxSagaInit /\ OthersQuiet
Spec2PCExec == Init2PCExec /\ [][ExecNext]_vars

\* execute_transaction and abort_transaction of TwoPhaseCommit
InitProtocol == CBQuiet /\ TPCInit /\ SagaInit /\ TxSagaInit /\ OthersQuiet
SpecProtocol == InitProtocol /\ [][ProtocolNext]_vars

\* the OutboxPattern alone, on a processor that connected or did not
InitPattern ==
    /\ CBQuiet /\ TPCInit /\ SagaInit /\ TxSagaInit
    /\ OutboxInit /\ InboxInit /\ OrchInit /\ PartInit /\ ExecInit /\ ProcInit
    /\ ProtocolInit /\ PatternInit
SpecPattern == InitPattern /\ [][PatternNext]_vars

\* start_processor and stop_processor called from several threads
InitProcessor == CBQuiet /\ TPCInit /\ SagaInit /\ TxSagaInit /\ OthersQuiet
SpecProcessor == InitProcessor /\ [][ProcNext]_vars

(***************************************************************************)
(* Circuit breaker properties                                              *)
(***************************************************************************)
\* thread t finishes an invocation of func in this step with result r
CallEnds(t, r) ==
    cb_pc[t] = "running" /\ cb_pc'[t] = "idle" /\ cb_result'[t] = r

\* C1: a classified failure that makes the run of consecutive classified
\* failures reach failure_threshold or more leaves the breaker OPEN, and as
\* long as no more than recovery_timeout has passed since that failure no
\* step invokes the wrapped operation: a call can only end "rejected".
C1_OpensAndRejects ==
    [][ /\ \A t \in CBThreads :
              (CallEnds(t, "raised_expected")
                 /\ consecutive_failures' >= failure_threshold)
              => stats'.state = "OPEN"
        /\ (/\ consecutive_failures >= failure_threshold
            /\ \A t \in CBThreads : cb_pc[t] = "idle"
            /\ now - opened_at <= recovery_timeout)
           => /\ invocations' = invocations
              /\ \A t \in CBThreads :
                    /\ cb_pc'[t] = "idle"
                    /\ cb_result'[t] # cb_result[t]
                         => cb_result'[t] = "rejected"
      ]_vars

\* threshold (at least 2) invocations, all classified failures, and then a
\* call that was rejected
C1_Witness ==
    /\ failure_threshold > 1
    /\ invocations >= failure_threshold
    /\ consecutive_failures = invocations
    /\ stats.state = "OPEN"
    /\ \E t \in CBThreads : cb_result[t] = "rejected"

\* C2: once more than recovery_timeout has passed since the transition to
\* OPEN, a call made while OPEN is admitted: the state becomes HALF_OPEN and
\* the wrapped operation is invoked; a call that returns while HALF_OPEN
\* leaves the breaker CLOSED with failure_count = 0.
C2_RecoversAfterTimeout ==
    [][ \A t \in CBThreads :
          /\ (/\ stats.state = "OPEN"
              /\ now - opened_at > recovery_timeout
              /\ cb_pc[t] = "idle"
              /\ (cb_pc'[t] # cb_pc[t] \/ cb_result'[t] # cb_result[t]))
             => /\ stats'.state = "HALF_OPEN"
                /\ cb_pc'[t] = "running"
                /\ invocations' = invocations + 1
          /\ (stats.state = "HALF_OPEN" /\ CallEnds(t, "returned"))
             => /\ stats'.state = "CLOSED"
                /\ stats'.failure_count = 0
      ]_vars

\* the breaker opened after failure_threshold failures and closed again on
\* the first success
C2_Witness ==
    /\ stats.state = "CLOSED"
    /\ stats.failure_count = 0
    /\ stats.success_count = 1
    /\ stats.total_requests = failure_threshold + 1
    /\ now - opened_at > recovery_timeout
    /\ opened_at # None

\* C3: a classified failure of a call admitted in HALF_OPEN leaves the
\* breaker OPEN with last_failure_time set to the instant of that failure,
\* so the cool-down test fails at every instant up to recovery_timeout later.
C3_HalfOpenFailureReopens ==
    [][ \A t \in CBThreads :
          (stats.state = "HALF_OPEN" /\ CallEnds(t, "raised_expected"))
          => /\ stats'.state = "OPEN"
             /\ stats'.last_failure_time = now
             /\ \A d \in 0..recovery_timeout :
                   ~CoolDownElapsed(stats', recovery_timeout, now + d)
      ]_vars

\* the probe failed, and a call made after it was rejected
C3_Witness ==
    /\ stats.state = "OPEN"
    /\ stats.failure_count > failure_threshold
    /\ opened_at > recovery_timeout
    /\ consecutive_failures = invocations
    /\ \E t \in CBThreads : cb_result[t] = "rejected"

\* C21: when func raises an exception that is not of the expected kind, the
\* call ends with that exception, failure_count, success_count and
\* total_requests are what they were when the call was made, and the call
\* does not move the breaker to OPEN. The lock is held from admission to the
\* end of the call, so the call's own steps are its admission, which also
\* leaves the three counters alone, and its end.
C21_UnexpectedExceptionBypasses ==
    [][ \A t \in CBThreads :
          (\/ CallEnds(t, "raised_other")
           \/ (cb_pc[t] = "idle" /\ cb_pc'[t] = "running"))
          => /\ stats'.failure_count = stats.failure_count
             /\ stats'.success_count = stats.success_count
             /\ stats'.total_requests = stats.total_requests
             /\ stats'.state # "OPEN"
      ]_vars

\* after a classified failure was counted, a call ended with an exception
\* of another kind
C21_Witness ==
    /\ stats.failure_count > 0
    /\ stats.state = "CLOSED"
    /\ \E t \in CBThreads : cb_result[t] = "raised_other" /\ cb_pc[t] = "idle"
    /\ consecutive_failures = 0

\* C28: a call made while OPEN, when the time since the last failure is
\* greater than or equal to recovery_timeout, is admitted: the state becomes
\* HALF_OPEN and func is entered. The time may equal recovery_timeout.
C28_AdmittedAtBoundary ==
    [][ \A t \in CBThreads :
          (/\ stats.state = "OPEN"
           /\ now - stats.last_failure_time >= recovery_timeout
           /\ cb_pc[t] = "idle"
           /\ (cb_pc'[t] # cb_pc[t] \/ cb_result'[t] # cb_result[t]))
          => /\ stats'.state = "HALF_OPEN"
             /\ cb_pc'[t] = "running"
      ]_vars

\* C29: while CLOSED the breaker holds fewer than failure_threshold
\* classified failures counted since it was created or last went from
\* HALF_OPEN to CLOSED; a step takes it from CLOSED to OPEN exactly when that
\* count reaches failure_threshold, whatever successes lie in between.
C29_OpensOnTotalFailures ==
    [][ /\ stats.state = "CLOSED" => failures_since_closed < failure_threshold
        /\ stats.state = "CLOSED"
           => (stats'.state = "OPEN"
               <=> failures_since_closed' = failure_threshold)
      ]_vars

\* two failures with a success between them opened a breaker of threshold 2
C29_Witness ==
    /\ stats.state = "OPEN"
    /\ failure_threshold = 2
    /\ failures_since_closed = 2
    /\ consecutive_failures = 1
    /\ stats.success_count >= 1

\* C30: the step that takes the breaker from HALF_OPEN to CLOSED resets
\* total_requests, failure_count and success_count, so that after it they
\* count nothing but, at most, the call that closed the breaker; no other
\* step resets or decreases any of the three.
C30_CountersResetOnlyOnClose ==
    [][ IF stats.state = "HALF_OPEN" /\ stats'.state = "CLOSED"
        THEN /\ stats'.failure_count = 0
             /\ stats'.success_count <= 1
             /\ stats'.total_requests <= 1
        ELSE /\ stats'.failure_count >= stats.failure_count
             /\ stats'.success_count >= stats.success_count
             /\ stats'.total_requests >= stats.total_requests
      ]_vars

\* C33 as stated: a call admitted while HALF_OPEN leaves the breaker CLOSED
\* when it returns and OPEN when it raises, whatever it raises; the breaker
\* is not HALF_OPEN after a probe call has ended.
C33_ProbeAlwaysLeavesHalfOpen ==
    [][ \A t \in CBThreads :
          /\ (stats.state = "HALF_OPEN" /\ CallEnds(t, "returned"))
             => stats'.state = "CLOSED"
          /\ (stats.state = "HALF_OPEN"
              /\ (CallEnds(t, "raised_expected") \/ CallEnds(t, "raised_other")))
             => stats'.state = "OPEN"
      ]_vars

\* C33 as amended: a call admitted while HALF_OPEN leaves the breaker CLOSED
\* when it returns and OPEN when it raises an exception of the expected
\* kind; a probe that raises any other exception leaves it HALF_OPEN.
C33_ClassifiedProbeLeavesHalfOpen ==
    [][ \A t \in CBThreads :
          /\ (stats.state = "HALF_OPEN" /\ CallEnds(t, "returned"))
             => stats'.state = "CLOSED"
          /\ (stats.state = "HALF_OPEN" /\ CallEnds(t, "raised_expected"))
             => stats'.state = "OPEN"
          /\ (stats.state = "HALF_OPEN" /\ CallEnds(t, "raised_other"))
             => stats'.state = "HALF_OPEN"
      ]_vars

\* a probe raised an exception of another kind, and the probe admitted
\* after it returned and closed the breaker
C33_Witness ==
    /\ stats.state = "CLOSED"
    /\ opened_at # None
    /\ \E t \in CBThreads, u \in CBThreads :
          /\ cb_result[t] = "raised_other"
          /\ cb_result[u] = "returned"
    /\ stats.success_count = 1
    /\ stats.failure_count = 0
    /\ invocations = stats.total_requests + 1

\* C40: a call rejected because the breaker is OPEN inside the cool-down
\* leaves state, failure_count, success_count, total_requests, failure_rate
\* and last_failure_time as they were.
C40_RejectionChangesNothing ==
    [][ \A t \in CBThreads :
          (cb_result'[t] = "rejected" /\ cb_result[t] # "rejected")
          => stats' = stats
      ]_vars

\* a call was rejected after a success and the failures that opened the
\* breaker: the counters hold those calls and nothing else
C40_Witness ==
    /\ stats.state = "OPEN"
    /\ \E t \in CBThreads : cb_result[t] = "rejected"
    /\ stats.success_count = 1
    /\ stats.failure_count = failure_threshold
    /\ stats.total_requests = invocations
    /\ stats.last_failure_time = opened_at

\* C20: concurrent calls are serialized only for the state check and the
\* bookkeeping: the breaker lock is not held while the wrapped operation
\* runs, so that two admitted calls can run it at the same time.
C20_LockFreeWhileRunning ==
    \A t \in CBThreads : cb_pc[t] = "running" => cb_lock # t

\* two admitted calls are inside the wrapped operation at the same time
TwoCallsRunning ==
    \E t \in CBThreads, u \in CBThreads :
        t # u /\ cb_pc[t] = "running" /\ cb_pc[u] = "running"

(***************************************************************************)
(* Two-phase-commit properties                                             *)
(***************************************************************************)
\* execute_two_phase_commit has just returned for transaction tpc_last.tx
ExecuteReturned == tpc_last.op = "execute_two_phase_commit"

LastTx == coordinator.transactions[tpc_last.tx]
LastCalls == coordinator.calls[tpc_last.tx]
LastIndices == DOMAIN LastTx.participants

\* the participants whose resource manager the coordinator knows
LastRegistered ==
    {i \in LastIndices :
        LastTx.participants[i].resource_manager \in ResourceManagers}

\* C7, as stated: when some participant's prepare returned false,
\* execute_two_phase_commit has called commit on no participant and abort on
\* every participant of the transaction.
C7_AbortsEveryParticipant ==
    (ExecuteReturned /\ \E i \in LastIndices : LastCalls.prepare[i] = "failed")
    => /\ \A i \in LastIndices : LastCalls.commit[i] = "none"
       /\ \A i \in LastIndices : LastCalls.abort[i] = "ok"

\* C7, amended: when some participant's prepare returned false,
\* execute_two_phase_commit has called commit on no participant and abort on
\* every participant whose resource manager is registered; a participant
\* that names no registered manager gets no call and stays FAILED.
C7_AbortsRegisteredParticipants ==
    (ExecuteReturned /\ \E i \in LastIndices : LastCalls.prepare[i] = "failed")
    => /\ ~tpc_last.ret
       /\ \A i \in LastIndices : LastCalls.commit[i] = "none"
       /\ \A i \in LastRegistered :
             LastCalls.abort[i] = "ok"
             /\ LastTx.participants[i].status = "ABORTED"
       /\ \A i \in LastIndices \ LastRegistered :
             LastCalls.abort[i] = "none"
             /\ LastTx.participants[i].status = "FAILED"

\* a prepare returned false in a transaction that also names an
\* unregistered participant
C7_Witness ==
    /\ ExecuteReturned
    /\ \E i \in LastIndices : LastCalls.prepare[i] = "failed"
    /\ LastRegistered # LastIndices
    /\ \E i \in LastRegistered : LastCalls.abort[i] = "ok"

\* C8: when every participant's prepare and every participant's commit
\* succeeded, execute_two_phase_commit returns true, the transaction is
\* COMMITTED and so is every participant.
C8_AllSucceedCommits ==
    (/\ ExecuteReturned
     /\ \A i \in LastIndices : LastCalls.prepare[i] = "ok"
     /\ \A i \in LastIndices : LastCalls.commit[i] = "ok")
    => /\ tpc_last.ret
       /\ LastTx.status = "COMMITTED"
       /\ \A i \in LastIndices : LastTx.participants[i].status = "COMMITTED"

\* two different managers prepared and committed
C8_Witness ==
    /\ ExecuteReturned
    /\ Len(LastTx.participants) = 2
    /\ \A i \in LastIndices : LastCalls.prepare[i] = "ok"
    /\ \A i \in LastIndices : LastCalls.commit[i] = "ok"
    /\ tpc_last.ret

\* C9: whenever commit is invoked on a participant's resource manager, the
\* last prepare of every participant of that transaction was invoked and
\* returned true (no commit before a complete, successful Phase 1), under
\* any sequence of coordinator operations.
C9_NoCommitBeforePrepared ==
    \A tx \in TxIds : ~coordinator.calls[tx].premature

\* prepare_phase and then commit_phase, called one by one, committed a
\* participant
C9_Witness ==
    /\ tpc_last.op = "commit_phase"
    /\ \E i \in LastIndices : LastCalls.commit[i] = "ok"

\* C10: when every prepare succeeded and some participant's commit failed,
\* the transaction is ABORTED, abort was invoked on every participant and
\* execute_two_phase_commit returns false.
C10_CommitFailureAborts ==
    (/\ ExecuteReturned
     /\ \A i \in LastIndices : LastCalls.prepare[i] = "ok"
     /\ \E i \in LastIndices : LastCalls.commit[i] = "failed")
    => /\ ~tpc_last.ret
       /\ LastTx.status = "ABORTED"
       /\ \A i \in LastIndices : LastCalls.abort[i] = "ok"

\* the same manager named twice: its second commit finds nothing prepared
C10_Witness ==
    /\ ExecuteReturned
    /\ \A i \in LastIndices : LastCalls.prepare[i] = "ok"
    /\ \E i \in LastIndices : LastCalls.commit[i] = "failed"
    /\ \A i \in LastIndices : LastCalls.abort[i] = "ok"

\* the registered managers the last transaction names
LastManagers ==
    {LastTx.participants[i].resource_manager : i \in LastRegistered}

\* the managers that have committed the last transaction
LastCommitted ==
    {rm \in ResourceManagers : tpc_last.tx \in coordinator.committed[rm]}

\* C11: when execute_two_phase_commit returns, for any participant list
\* (one that names the same manager twice included), either every
\* participant's resource manager has committed the transaction or none has,
\* and no manager has committed a transaction that ended ABORTED.
C11_AllCommitOrNone ==
    ExecuteReturned
    => /\ LastCommitted = {} \/ LastCommitted = LastManagers
       /\ LastTx.status = "ABORTED" => LastCommitted = {}

\* C22: whatever coordinator operation is called, a transaction's status
\* only moves forward along PREPARING, PREPARED, COMMITTED, or to ABORTED,
\* and a transaction that is COMMITTED or ABORTED keeps its status.
C22_StatusOnlyAdvances ==
    [][ \A tx \in TxIds :
          LET before == coordinator.transactions[tx].status
              after == coordinator'.transactions[tx].status
          IN  /\ before \in {"COMMITTED", "ABORTED"} => after = before
              /\ before = "PREPARED"
                 => after \in {"PREPARED", "COMMITTED", "ABORTED"}
      ]_vars

\* C24: a participant call is bounded by the transaction's timeout: the
\* coordinator is not found waiting for a prepare or a commit that never
\* returns once more than timeout_seconds have passed since the transaction
\* was created; by then it has treated the participant as failed and gone
\* on to abort and return False.
C24_CallsBoundedByTimeout ==
    (ExecWaiting /\ ~tpc_exec.returns) => tpc_exec.age <= TimeoutSeconds

\* the step is a direct call of commit(tx) on `who`, an object of class kind
CommitCalled(kind, who, tx) ==
    /\ part_ops' = part_ops + 1
    /\ part_last'.kind = kind /\ part_last'.op = "commit"
    /\ part_last'.who = who /\ part_last'.tx = tx

\* C23: commit(tx) on a participant that does not hold tx as prepared (it
\* never prepared it, has committed it already, or has aborted it) fails: a
\* ResourceManager returns False, a TwoPhaseCommitParticipant raises the
\* not-prepared error; nothing is committed and the participant's prepared
\* transactions are what they were.
C23_CommitNeedsPrepared ==
    [][ /\ \A rm \in ResourceManagers, tx \in PartTxIds :
              (/\ CommitCalled("ResourceManager", rm, tx)
               /\ tx \notin coordinator.prepared_transactions[rm])
              => /\ part_last'.ret = "False"
                 /\ coordinator'.committed = coordinator.committed
                 /\ coordinator'.prepared_transactions =
                        coordinator.prepared_transactions
        /\ \A p \in Participants, tx \in PartTxIds :
              (/\ CommitCalled("TwoPhaseCommitParticipant", p, tx)
               /\ tx \notin part_prepared[p])
              => /\ part_last'.ret = "not_prepared"
                 /\ part_hist' = part_hist
                 /\ part_prepared' = part_prepared
      ]_vars

\* a manager that committed a transaction was asked to commit it again, or
\* a participant that aborted one was asked to commit it
C23_Witness ==
    /\ part_last.op = "commit"
    /\ \/ /\ part_last.kind = "ResourceManager"
          /\ part_last.ret = "False"
          /\ part_last.tx \in coordinator.committed[part_last.who]
       \/ /\ part_last.kind = "TwoPhaseCommitParticipant"
          /\ part_last.ret = "not_prepared"
          /\ part_ops >= 3

(***************************************************************************)
(* Saga orchestrator properties                                            *)
(***************************************************************************)
\* the run started by start_saga(id, ...) has returned
SagaReturned(id) == saga_pc[id] = "done"

\* no forward action of the run raised
AllForwardSucceeded(id) ==
    \A k \in DOMAIN saga_hist[id].executed : ~saga_hist[id].executed[k].raised

\* the names of the compensating actions invoked, in the order invoked
RECURSIVE NamesOf(_)
NamesOf(log) ==
    IF log = << >> THEN << >> ELSE <<Head(log).name>> \o NamesOf(Tail(log))

\* C4: when start_saga has returned and no forward action raised, the
\* instance is COMPLETED and completed_steps is the list of the names of the
\* registered steps, in their registered order.
C4_AllStepsSucceedCompletes ==
    \A id \in SagaIds :
        (SagaReturned(id) /\ AllForwardSucceeded(id))
        => /\ sagas[id].status = "COMPLETED"
           /\ sagas[id].completed_steps = StepNamesOf(StepsOf(id))
           /\ NamesOf(saga_hist[id].executed) = StepNamesOf(StepsOf(id))

\* a saga of three steps ran to the end
C4_Witness ==
    \E id \in SagaIds :
        /\ SagaReturned(id)
        /\ AllForwardSucceeded(id)
        /\ StepNamesOf(StepsOf(id)) = <<"A", "B", "C">>
        /\ sagas[id].status = "COMPLETED"

\* the saga has steps A, B, C, each with a compensating action, A's forward
\* action returned and B's raised
SecondStepFailed(id) ==
    /\ SagaReturned(id)
    /\ StepNamesOf(StepsOf(id)) = <<"A", "B", "C">>
    /\ \A k \in 1..3 : StepsOf(id)[k].has_compensate
    /\ saga_hist[id].executed =
          <<[name |-> "A", raised |-> FALSE], [name |-> "B", raised |-> TRUE]>>

\* C5: for a saga with steps [A, B, C] whose step B raises, the compensating
\* actions executed are exactly [A] and the final status is COMPENSATED.
C5_CompensatesCompletedStepsOnce ==
    \A id \in SagaIds :
        SecondStepFailed(id)
        => /\ NamesOf(saga_hist[id].compensated) = <<"A">>
           /\ sagas[id].status = "COMPENSATED"

\* C15: register_saga for a saga type that is already registered is
\* rejected: the step list registered before stays as it was.
C15_DuplicateRegistrationRejected ==
    [][ \A saga_type \in DOMAIN saga_definitions :
          /\ saga_type \in DOMAIN saga_definitions'
          /\ saga_definitions'[saga_type] = saga_definitions[saga_type]
      ]_vars

\* the last start_saga for id raised ValueError("Unknown saga type")
UnknownTypeRaised(id) == saga_pc[id] = "unknown_type"

\* C16: a start_saga that names an unregistered saga type fails with the
\* unknown-type error, stores no instance in the registry and executes no
\* step: the registry and the history of every run stay as they were.
C16_UnknownTypeCreatesNothing ==
    [][ \A id \in SagaIds :
          (~UnknownTypeRaised(id) /\ UnknownTypeRaised(id)')
          => /\ sagas' = sagas
             /\ saga_hist' = saga_hist
             /\ saga_definitions' = saga_definitions
      ]_vars

\* a type is registered, start_saga named another one
C16_Witness ==
    \E id \in SagaIds :
        /\ UnknownTypeRaised(id)
        /\ DOMAIN saga_definitions # {}
        /\ id \notin DOMAIN sagas
        /\ saga_hist[id] = NoHistory

\* the statuses ahead of st on the path
\* STARTED -> IN_PROGRESS -> (COMPLETED | FAILED -> COMPENSATING -> COMPENSATED)
StatusesAfter(st) ==
    CASE st = "STARTED" ->
             {"IN_PROGRESS", "COMPLETED", "FAILED", "COMPENSATING",
              "COMPENSATED"}
      [] st = "IN_PROGRESS" ->
             {"COMPLETED", "FAILED", "COMPENSATING", "COMPENSATED"}
      [] st = "FAILED" -> {"COMPENSATING", "COMPENSATED"}
      [] st = "COMPENSATING" -> {"COMPENSATED"}
      [] OTHER -> {}

\* C25: the statuses assigned to an instance, in the order assigned, only
\* move forward along STARTED, IN_PROGRESS, then COMPLETED or FAILED,
\* COMPENSATING, COMPENSATED (IN_PROGRESS is assigned again for each step);
\* nothing is assigned after COMPLETED or COMPENSATED, so that COMPENSATED
\* is never followed by COMPENSATING.
C25_TerminalStatusFinal ==
    \A id \in SagaIds :
        LET st == saga_hist[id].statuses
        IN  \A k \in 1..(Len(st) - 1) :
                \/ st[k + 1] \in StatusesAfter(st[k])
                \/ st[k] = "IN_PROGRESS" /\ st[k + 1] = "IN_PROGRESS"

\* C26: the forward actions invoked for an instance are those of its steps
\* in their order, each at most once: the k-th invocation is that of step
\* k, and a forward action that raised is the last one invoked.
C26_NoRetry ==
    \A id \in DOMAIN sagas :
        LET ex == saga_hist[id].executed
        IN  /\ Len(ex) <= Len(StepsOf(id))
            /\ \A k \in DOMAIN ex :
                   /\ ex[k].name = StepsOf(id)[k].name
                   /\ ex[k].raised => k = Len(ex)

\* after A returned and B raised the run went through compensation to its
\* end, and C was never invoked
C26_Witness ==
    \E id \in SagaIds :
        /\ SecondStepFailed(id)
        /\ sagas[id].status = "COMPENSATED"
        /\ saga_pc[id] = "done"

\* the names of the compensating actions one sweep of _compensate_saga
\* over completed_steps[1..k] has to attempt, last completed step first
RECURSIVE SweepOf(_, _, _)
SweepOf(completed_steps, steps, k) ==
    IF k = 0 THEN << >>
    ELSE LET i == FirstNamed(steps, completed_steps[k], 1)
         IN  (IF i # 0 /\ steps[i].has_compensate
              THEN <<completed_steps[k]>> ELSE << >>)
             \o SweepOf(completed_steps, steps, k - 1)

RECURSIVE Repeated(_, _)
Repeated(q, n) == IF n = 0 THEN << >> ELSE q \o Repeated(q, n - 1)

\* C27: whichever compensating actions raise, every sweep attempts the
\* compensating action of every completed step that has one, and the
\* instance is COMPENSATED after the sweep.
C27_SweepIsBestEffort ==
    \A id \in DOMAIN sagas :
        saga_hist[id].sweeps >= 1
        => /\ sagas[id].status = "COMPENSATED"
           /\ NamesOf(saga_hist[id].compensated) =
                  Repeated(SweepOf(sagas[id].completed_steps, StepsOf(id),
                                   Len(sagas[id].completed_steps)),
                           saga_hist[id].sweeps)

\* the compensating action of the last completed step raised and that of
\* the step before it was attempted after it
C27_Witness ==
    \E id \in DOMAIN sagas :
        /\ sagas[id].status = "COMPENSATED"
        /\ Len(sagas[id].completed_steps) = 2
        /\ Len(saga_hist[id].compensated) >= 2
        /\ saga_hist[id].compensated[1].raised
        /\ saga_hist[id].compensated[2].name # saga_hist[id].compensated[1].name

(***************************************************************************)
(* Order saga scenario                                                     *)
(***************************************************************************)
\* request r carried a non-empty order_id and amount = -5, and
\* execute_saga_transaction has answered it
NegativeAmountReturned(r) ==
    /\ tx_pc[r] = "returned"
    /\ tx_sagas[r].context.order_id # ""
    /\ tx_sagas[r].context.amount = -5

\* C6, as stated: the saga run with amount = -5 ends COMPENSATED, its
\* completed_steps were [validate_order, reserve_inventory] when compensation
\* began, and the context shows payment_processed == false afterwards.
C6_PaymentProcessedFalse ==
    \A r \in Requests :
        NegativeAmountReturned(r)
        => /\ tx_sagas[r].status = "COMPENSATED"
           /\ tx_sagas[r].compensation_began_with =
                 <<"validate_order", "reserve_inventory">>
           /\ tx_sagas[r].context.payment_processed = "False"

\* C6, amended: the saga run with amount = -5 ends COMPENSATED, its
\* completed_steps were [validate_order, reserve_inventory] when compensation
\* began, the compensations run are those of reserve_inventory and then
\* validate_order, and the context holds no payment_processed entry at all
\* afterwards: neither process_payment nor its compensation sets it.
C6_PaymentProcessedNeverSet ==
    \A r \in Requests :
        NegativeAmountReturned(r)
        => /\ tx_sagas[r].status = "COMPENSATED"
           /\ ~tx_success[r]
           /\ tx_sagas[r].compensation_began_with =
                 <<"validate_order", "reserve_inventory">>
           /\ tx_sagas[r].compensated =
                 <<"reserve_inventory", "validate_order">>
           /\ tx_sagas[r].context.payment_processed = "absent"
           /\ tx_sagas[r].context.validated = "False"
           /\ tx_sagas[r].context.reserved_inventory = "None"

\* such a request was answered
C6_Witness ==
    \E r \in Requests :
        NegativeAmountReturned(r) /\ tx_sagas[r].status = "COMPENSATED"

(***************************************************************************)
(* Outbox properties                                                       *)
(***************************************************************************)
\* some publish of record event_id reached a handler that returned
OutboxDelivered(event_id) ==
    \E k \in DOMAIN outbox_hist[event_id] :
        outbox_hist[event_id][k] = "handled"

\* the ids in a list find_unprocessed returned
IdsOf(ids) == {ids[k] : k \in DOMAIN ids}

\* C12: every read of the unprocessed records includes every saved record
\* that no successful publish has marked processed, under any interleaving
\* with the background processor.
C12_UnprocessedUntilPublished ==
    outbox_read.done
    => \A event_id \in DOMAIN outbox_events :
          ~OutboxDelivered(event_id) => event_id \in IdsOf(outbox_read.ids)

\* C13: a record is processed only if its last publish was a successful
\* delivery; a record whose publish failed (a handler raised, or nothing was
\* delivered) stays unprocessed, to be published again by the next scan.
C13_ProcessedOnlyAfterAck ==
    \A event_id \in DOMAIN outbox_events :
        outbox_events[event_id].processed
        => /\ outbox_hist[event_id] # << >>
           /\ outbox_hist[event_id][Len(outbox_hist[event_id])] = "handled"

(***************************************************************************)
(* Inbox properties                                                        *)
(***************************************************************************)
\* this step hands message_id to thread t
InboxDelivers(t, message_id) ==
    /\ inbox_hist'.deliveries = inbox_hist.deliveries + 1
    /\ inbox_hist'.last = [thread |-> t, message_id |-> message_id]

\* C14: a delivery of a message id that is in processed_messages returns
\* True without invoking process_event; a delivery of an id that is not
\* invokes process_event, and an id joins processed_messages only in the
\* step in which a process_event for it returns.
C14_SeenIdNotReprocessed ==
    [][ \A t \in InboxThreads, message_id \in MessageIds :
          /\ (InboxDelivers(t, message_id) /\ message_id \in inbox_processed)
             => /\ inbox_ret'[t] = "True"
                /\ inbox_pc'[t] = "idle"
                /\ inbox_hist'.runs = inbox_hist.runs
                /\ inbox_processed' = inbox_processed
          /\ (InboxDelivers(t, message_id) /\ message_id \notin inbox_processed)
             => /\ inbox_pc'[t] = "processing"
                /\ inbox_msg'[t] = message_id
                /\ message_id \notin inbox_processed'
          /\ (message_id \in inbox_processed' \ inbox_processed)
             => inbox_hist'.runs[message_id] =
                   Append(inbox_hist.runs[message_id], "returned")
      ]_vars

\* a message was processed once and then delivered twice more, each time
\* answered True without processing
C14_Witness ==
    \E message_id \in MessageIds :
        /\ message_id \in inbox_processed
        /\ inbox_hist.runs[message_id] = <<"returned">>
        /\ inbox_hist.skipped[message_id] = 2
        /\ \A t \in InboxThreads : inbox_pc[t] = "idle"
        /\ inbox_ret[inbox_hist.last.thread] = "True"

\* C35: once a saga is COMPENSATED after a failed execute_step, a later
\* execute_step on it runs no forward action: completed_steps and the
\* context stay as they are.
C35_CompensatedSagaTakesNoStep ==
    [][ \A r \in DOMAIN tx_sagas :
          tx_sagas[r].status = "COMPENSATED"
          => /\ tx_sagas'[r].completed_steps = tx_sagas[r].completed_steps
             /\ tx_sagas'[r].context = tx_sagas[r].context
      ]_vars

\* the number of entries of q equal to x
RECURSIVE CountOf(_, _)
CountOf(q, x) ==
    IF q = << >> THEN 0
    ELSE (IF Head(q) = x THEN 1 ELSE 0) + CountOf(Tail(q), x)

\* C37: however concurrent handle_message calls with one message id
\* interleave, process_event returns for that id at most once.
C37_ProcessedAtMostOnce ==
    \A message_id \in MessageIds :
        CountOf(inbox_hist.runs[message_id], "returned") <= 1

\* get_pending_count counts the message: its inbox_event is not processed
InboxPending(message_id) ==
    /\ message_id \in DOMAIN inbox_events
    /\ ~inbox_events[message_id].processed

\* no handle_message call for message_id is inside process_event
InboxSettled(message_id) ==
    \A t \in InboxThreads :
        inbox_pc[t] = "processing" => inbox_msg[t] # message_id

\* C38: for the deliveries of a message id that come one after the other:
\* when process_event raises, handle_message returns False, the id is not
\* in processed_messages and the message is pending, and the next delivery
\* of the id invokes process_event again; once process_event has returned
\* the id is in processed_messages and the message is not pending.
C38_FailedMessageStaysPending ==
    [][ \A t \in InboxThreads, message_id \in MessageIds :
          LET runs == inbox_hist'.runs[message_id]
          IN  ~inbox_hist'.overlapped[message_id]
              => /\ (/\ InboxSettled(message_id)'
                     /\ runs # << >>
                     /\ runs[Len(runs)] = "raised")
                    => /\ message_id \notin inbox_processed'
                       /\ InboxPending(message_id)'
                 /\ (/\ inbox_pc[t] = "processing"
                     /\ inbox_msg[t] = message_id
                     /\ runs = Append(inbox_hist.runs[message_id], "raised"))
                    => inbox_ret'[t] = "False"
                 /\ (/\ InboxDelivers(t, message_id)
                     /\ runs # << >>
                     /\ runs[Len(runs)] = "raised")
                    => inbox_pc'[t] = "processing"
                 /\ (/\ InboxSettled(message_id)'
                     /\ runs # << >>
                     /\ runs[Len(runs)] = "returned")
                    => /\ message_id \in inbox_processed'
                       /\ ~InboxPending(message_id)'
      ]_vars

\* process_event raised for a message and returned for its next delivery
C38_Witness ==
    \E message_id \in MessageIds :
        /\ inbox_hist.runs[message_id] = <<"raised", "returned">>
        /\ ~inbox_hist.overlapped[message_id]
        /\ message_id \in inbox_processed
        /\ ~InboxPending(message_id)
        /\ InboxSettled(message_id)

(***************************************************************************)
(* Saga orchestrator properties under concurrent callers                   *)
(***************************************************************************)
\* thread t is inside a forward action
OrchInForward(t) == orch_th[t].pc = "execute"

\* thread t is inside a compensating action
OrchInCompensation(t) == orch_th[t].pc = "compensating"

\* C17: for one saga instance, no two forward actions, and no forward action
\* and compensating action, are executing at the same time, under any
\* interleaving of the threads that call start_saga and run the callbacks.
C17_OneActionPerInstance ==
    \A t \in OrchThreads, u \in OrchThreads :
        (/\ t # u
         /\ OrchInForward(t)
         /\ OrchInForward(u) \/ OrchInCompensation(u))
        => orch_th[t].saga # orch_th[u].saga

\* start_saga, _execute_next_step, _compensate_saga, get_saga_status and
\* get_all_sagas of every other thread wait for thread t
OrchBlocksOthers(t) == orch_lock = t

\* thread u is about to advance or compensate the instance it drives
OrchAdvancing(u) == orch_th[u].pc \in {"next", "compensate"}

\* C18: a forward or compensating action of one instance that has not
\* returned never keeps a thread from advancing a different instance (nor
\* from starting or reading one): the thread inside the action does not
\* hold the lock those need.
C18_StuckActionBlocksNoOtherInstance ==
    \A t \in OrchThreads, u \in OrchThreads :
        (/\ OrchInForward(t) \/ OrchInCompensation(t)
         /\ OrchAdvancing(u)
         /\ orch_th[u].saga_id # orch_th[t].saga_id)
        => ~OrchBlocksOthers(t)

\* no step is partially applied to a SagaState: the context holds the
\* results of exactly the steps named in completed_steps, and current_step
\* counts them
OrchWholeSteps(saga) ==
    /\ saga.context =
          {saga.completed_steps[k] : k \in DOMAIN saga.completed_steps}
    /\ saga.current_step = Len(saga.completed_steps)

\* C19: what get_saga_status returns while an execution is in flight never
\* shows a partially applied step, and does not change after the read
\* returned.
C19_ConsistentSnapshot ==
    [][ /\ orch_read'.done => OrchWholeSteps(orch_read'.seen)
        /\ orch_read.done
           => /\ orch_objs'[orch_read.saga].context = orch_read.seen.context
              /\ orch_objs'[orch_read.saga].completed_steps =
                    orch_read.seen.completed_steps
      ]_vars

\* a thread is inside publish_event for SAGA_COMPLETED or SAGA_COMPENSATED:
\* the local handlers of the event run on this thread
OrchPublishing(t) ==
    orch_th[t].pc \in {"publish_completed", "publish_compensated"}

\* C34: no saga event is published, and so no local handler runs, while
\* the publishing thread holds self.lock; a handler that takes the lock
\* (get_saga_status, get_all_sagas, start_saga) is then never stuck behind
\* its own thread.
C34_NoPublishUnderLock ==
    \A t \in OrchThreads : OrchPublishing(t) => orch_lock # t

\* C36: once execute_two_phase_commit has returned, with either result and
\* whatever a concurrent transaction did to the managers meanwhile, no
\* registered resource manager holds a prepared entry for the transaction.
C36_NoReservationAfterReturn ==
    tpc_exec.pc = "returned"
    => \A rm \in ResourceManagers :
          tpc_exec.tx \notin coordinator.prepared_transactions[rm]

\* execute_two_phase_commit returned False after a manager had prepared the
\* transaction, while a concurrent transaction holds an entry of its own
C36_Witness ==
    /\ tpc_exec.pc = "returned"
    /\ ~tpc_last.ret
    /\ \E i \in DOMAIN coordinator.calls[tpc_exec.tx].prepare :
          coordinator.calls[tpc_exec.tx].prepare[i] = "ok"
    /\ \E rm \in ResourceManagers :
          ConcurrentTx \in coordinator.prepared_transactions[rm]

\* the last call was an execute_transaction in which a named participant
\* is not registered or a participant's validate_operation raised, so that
\* its prepare returned False
PrepareRefused ==
    /\ protocol_last.op = "execute_transaction"
    /\ \E i \in DOMAIN protocol_last.operations :
          IF protocol_last.operations[i] \in Participants
          THEN protocol_last.validate[protocol_last.operations[i]] = "raises"
          ELSE TRUE

\* C32: an execute_transaction in which a participant's prepare returns
\* False or a named participant is not registered raises to its caller,
\* invokes no participant's commit and leaves the transaction ABORTED.
C32_PrepareFailureAborts ==
    PrepareRefused
    => /\ protocol_last.raised
       /\ protocol_last.commit_calls = 0
       /\ protocol_transactions[protocol_last.tx_id].status = "ABORTED"

\* the second named participant is not registered, the first had prepared
C32_Witness ==
    /\ PrepareRefused
    /\ Len(protocol_last.operations) = 2
    /\ protocol_last.operations[1] \in Participants
    /\ protocol_last.validate[protocol_last.operations[1]] = "returns"
    /\ protocol_last.operations[2] \notin Participants
    /\ protocol_last.raised

\* the broker acknowledged a send of the event
PatternDelivered(event_id) ==
    \E k \in DOMAIN pattern_hist[event_id] :
        pattern_hist[event_id][k] = "acked"

\* the event is in the deque, to be published by a later flush
PatternQueued(event_id) ==
    \E k \in DOMAIN pattern_queue :
        pattern_queue[k].id = event_id /\ ~pattern_queue[k].processed

\* C31: delivery is at-least-once: a saved event whose send failed, or
\* that was flushed while the broker was disconnected, stays queued for a
\* later flush; every saved event is delivered or still queued.
C31_UndeliveredStaysQueued ==
    \A event_id \in DOMAIN pattern_hist :
        PatternDelivered(event_id) \/ PatternQueued(event_id)

(***************************************************************************)
(* Outbox processor properties                                             *)
(***************************************************************************)
\* this step is caller c returning from stop_processor
StopProcessorReturns(c) ==
    /\ proc_callers[c].pc = "join"
    /\ proc_callers'[c] = ProcCallerIdle("stopped")

\* C39: however start_processor and stop_processor calls interleave, at
\* most one thread is inside the loop of _process_events, and when
\* stop_processor returns no thread is inside it.
C39_OneProcessorAndStopWaits ==
    [][ /\ Cardinality(ProcInLoop') <= 1
        /\ \A c \in ProcCallers :
              StopProcessorReturns(c) => ProcInLoop' = {}
      ]_vars

====
